---- MODULE Spec2Model ----
(***************************************************************************)
(* Model of the chunked, resumable docking orchestrator of mcdockv2.py:    *)
(* discovery of the ligand catalog, the completion oracle, the chunker,    *)
(* the per-chunk retry loop with failure diagnosis, and the main loop.     *)
(*                                                                         *)
(* Python str values are TLC strings; s[i:j], `in`, endswith, split,       *)
(* os.path.basename and os.path.splitext are computed character by         *)
(* character, as the interpreter computes them.                            *)
(***************************************************************************)
EXTENDS Integers, Sequences, FiniteSets, TLC

VARIABLES
    py,                 \* the pure-function harness: one call, its arguments and its result
    ligand_tree,        \* the *.sdf / *.pdbqt paths under LIGAND_DIR (file system)
    mcresult,           \* OUTPUT_DIR/mcresult: [exists, files], files = {[name, size]}
    output_files,       \* other files in OUTPUT_DIR: name -> list of lines
    shutdown_requested, \* the global flag of signal_handler
    pc,                 \* position of the controller
    exit_code,          \* process exit status, -1 while running
    all_ligand_files,   \* main: sorted catalog
    ligand_files,       \* main: pending list handed to create_chunks
    chunks,             \* main: the plan
    chunk_num,          \* main: 1-based number of the current chunk
    successful_chunks,  \* main: counter
    failed_chunks,      \* main: counter
    failed_chunk_numbers, \* main: list
    chunk_ligands,      \* run_mcdock_chunk_with_retry: its (re-assigned) first parameter
    remaining_ligands,  \* run_mcdock_chunk_with_retry: in-flight list
    failed_ligands,     \* run_mcdock_chunk_with_retry
    successful_ligands, \* run_mcdock_chunk_with_retry
    attempt,            \* run_mcdock_chunk_with_retry: loop variable of range(max_attempts)
    chunk_success,      \* value returned by run_mcdock_chunk_with_retry
    poisoned,           \* environment: the input files the tool rejects as malformed
    hist                \* observation record of the current chunk and of the run

vars == <<py, ligand_tree, mcresult, output_files, shutdown_requested, pc, exit_code,
          all_ligand_files, ligand_files, chunks, chunk_num, successful_chunks,
          failed_chunks, failed_chunk_numbers, chunk_ligands, remaining_ligands,
          failed_ligands, successful_ligands, attempt, chunk_success, poisoned, hist>>

---------------------------------------------------------------------------
(* Bounds of the model *)

\* longest item list given to create_chunks in the pure-function check
MaxItems == 4
\* largest chunk size tried in the pure-function check (sizes run from -MaxSize to MaxSize)
MaxSize == 3
\* most files in the ligand tree of a modelled run
MaxCatalog == 4
\* most marker lines the tool prints in one stderr
MaxMarkers == 2
\* longest chunk handed to run_mcdock_chunk_with_retry when it is checked on its own
MaxChunkLen == 4
\* most zero-size output artifacts in the results directory a run starts from
MaxEmptyOutputs == 1
\* most runs of the script over the same directories
MaxRuns == 2

---------------------------------------------------------------------------
(* Python str and list primitives *)

Min(a, b) == IF a < b THEN a ELSE b
Max(a, b) == IF a < b THEN b ELSE a

\* s[i:j] for 0 <= i, j (0-based, end exclusive, clipped to the length)
PySlice(s, i, j) ==
    LET lo == Min(i, Len(s))
        hi == Min(j, Len(s))
    IN  IF lo >= hi THEN SubSeq(s, 1, 0) ELSE SubSeq(s, lo + 1, hi)

\* s[:-k] for k >= 1
PyDropLast(s, k) == PySlice(s, 0, Max(Len(s) - k, 0))

\* needle in hay
PyIn(needle, hay) ==
    \E i \in 0..(Len(hay) - Len(needle)) : PySlice(hay, i, i + Len(needle)) = needle

\* s.endswith(suffix)
PyEndsWith(s, suffix) ==
    /\ Len(s) >= Len(suffix)
    /\ PySlice(s, Len(s) - Len(suffix), Len(s)) = suffix

\* index (0-based) of the first / last occurrence of the character c in s, -1 if none
PyFind(s, c) ==
    IF \E i \in 0..(Len(s) - 1) : PySlice(s, i, i + 1) = c
    THEN CHOOSE i \in 0..(Len(s) - 1) :
            /\ PySlice(s, i, i + 1) = c
            /\ \A j \in 0..(i - 1) : PySlice(s, j, j + 1) # c
    ELSE -1

PyRFind(s, c) ==
    IF \E i \in 0..(Len(s) - 1) : PySlice(s, i, i + 1) = c
    THEN CHOOSE i \in 0..(Len(s) - 1) :
            /\ PySlice(s, i, i + 1) = c
            /\ \A j \in (i + 1)..(Len(s) - 1) : PySlice(s, j, j + 1) # c
    ELSE -1

\* s.split(sep) for a one-character separator
RECURSIVE PySplit(_, _)
PySplit(s, sep) ==
    LET i == PyFind(s, sep)
    IN  IF i = -1 THEN <<s>>
        ELSE <<PySlice(s, 0, i)>> \o PySplit(PySlice(s, i + 1, Len(s)), sep)

\* os.path.basename(p)
basename(p) == PySlice(p, PyRFind(p, "/") + 1, Len(p))

\* os.path.splitext(p)[0]: cut at the last dot of the last component, unless that
\* dot is preceded only by dots
splitext_root(p) ==
    LET sepIndex == PyRFind(p, "/")
        dotIndex == PyRFind(p, ".")
    IN  IF dotIndex > sepIndex
           /\ \E k \in (sepIndex + 1)..(dotIndex - 1) : PySlice(p, k, k + 1) # "."
        THEN PySlice(p, 0, dotIndex)
        ELSE p

\* code-point order of the characters that occur in paths
Ascii == "./0123456789_abcdefghijklmnopqrstuvwxyz"
Ord(c) == CHOOSE i \in 1..Len(Ascii) : SubSeq(Ascii, i, i) = c

\* a < b for str (lexicographic by code point)
RECURSIVE StrLess(_, _)
StrLess(a, b) ==
    IF Len(b) = 0 THEN FALSE
    ELSE IF Len(a) = 0 THEN TRUE
    ELSE LET ca == Ord(SubSeq(a, 1, 1))
             cb == Ord(SubSeq(b, 1, 1))
         IN  IF ca # cb THEN ca < cb
             ELSE StrLess(PySlice(a, 1, Len(a)), PySlice(b, 1, Len(b)))

\* sorted(S) for a set of distinct str
RECURSIVE sorted(_)
sorted(S) ==
    IF S = {} THEN <<>>
    ELSE LET m == CHOOSE x \in S : \A y \in S \ {x} : StrLess(x, y)
         IN  <<m>> \o sorted(S \ {m})

\* range(start, stop, step) for step # 0, as a list
RECURSIVE PyRange(_, _, _)
PyRange(start, stop, step) ==
    IF (step > 0 /\ start >= stop) \/ (step < 0 /\ start <= stop) THEN <<>>
    ELSE <<start>> \o PyRange(start + step, stop, step)

Range(f) == {f[i] : i \in DOMAIN f}

RECURSIVE Concat(_)
Concat(ss) == IF ss = <<>> THEN <<>> ELSE Head(ss) \o Concat(Tail(ss))

---------------------------------------------------------------------------
(* Pure functions of mcdockv2.py *)

\* a result of a call: a returned value or a raised exception
Returned(v) == [raised |-> "", value |-> v]
Raised(e) == [raised |-> e, value |-> <<>>]

\* variant of the oracle that does not look at the size of an artifact
get_completed_ligands_anysize(d) ==
    IF ~d.exists THEN {}
    ELSE {PyDropLast(f.name, 4) : f \in {g \in d.files : PyEndsWith(g.name, ".sdf")}}

\* get_completed_ligands(), reading the results directory d
get_completed_ligands(d) ==
    IF ~d.exists THEN {}
    ELSE {PyDropLast(f.name, 4) : f \in {g \in d.files : PyEndsWith(g.name, ".sdf") /\ g.size > 0}}

\* variant of filter_completed_ligands that looks the file name up with its extension
filter_completed_ligands_keepext(files, completed) ==
    LET Pending(ligand_file) == basename(ligand_file) \notin completed
    IN  SelectSeq(files, Pending)

\* filter_completed_ligands(ligand_files, completed_ligands)
filter_completed_ligands(files, completed) ==
    LET Pending(ligand_file) == splitext_root(basename(ligand_file)) \notin completed
    IN  SelectSeq(files, Pending)

\* variant of create_chunks whose slices end one item early
create_chunks_short(files, chunk_size) ==
    IF chunk_size = 0 THEN Raised("ValueError")
    ELSE LET starts == PyRange(0, Len(files), chunk_size)
         IN  Returned([k \in 1..Len(starts) |->
                          PySlice(files, starts[k], starts[k] + chunk_size - 1)])

\* create_chunks(ligand_files, chunk_size): range() raises ValueError for a zero step
\* and is empty for a negative one
create_chunks(files, chunk_size) ==
    IF chunk_size = 0 THEN Raised("ValueError")
    ELSE LET starts == PyRange(0, Len(files), chunk_size)
         IN  Returned([k \in 1..Len(starts) |-> PySlice(files, starts[k], starts[k] + chunk_size)])

\* extract_failed_ligands_from_error(stderr, ligand_list); stderr is <<>> for None
\* and <<text>> for a str.  Per marker line only the first '/'-separated part that
\* ends with .sdf is looked at, and only the first ligand containing it is blamed.
extract_failed_ligands_from_error(stderr, ligand_list) ==
    IF stderr = <<>> \/ stderr = <<"">> THEN <<>>
    ELSE LET error_text == stderr[1]
             error_lines == PySplit(error_text, "\n")
             BlamedBy(line) ==
                 IF PyIn("Bad input file", line) /\ PyIn(".sdf", line) /\ PyIn("obabel_", line)
                 THEN LET parts == PySplit(line, "/")
                          sdfParts == SelectSeq(parts, LAMBDA part : PyEndsWith(part, ".sdf"))
                      IN  IF sdfParts = <<>> THEN <<>>
                          ELSE LET hits == SelectSeq(ligand_list,
                                                     LAMBDA ligand : PyIn(sdfParts[1], ligand))
                               IN  IF hits = <<>> THEN <<>> ELSE <<hits[1]>>
                 ELSE <<>>
         IN  IF PyIn("Bad input file", error_text)
             THEN Concat([k \in 1..Len(error_lines) |-> BlamedBy(error_lines[k])])
             ELSE <<>>

---------------------------------------------------------------------------
(* Inputs of the model *)

\* files that may lie under LIGAND_DIR
LigandUniverse == {"/l/01.sdf", "/l/1.sdf", "/l/2.pdbqt", "/l/2.sdf"}

\* what the external tool prints for an input it rejects
MarkerLine(name) == "Bad input file: /t/obabel_1/" \o name

\* file names the tool may print in a marker line
ToolNames == {basename(p) : p \in {q \in LigandUniverse : PyEndsWith(q, ".sdf")}}

\* lines of stderr that carry no input-specific marker
NoiseLines == {"Segmentation fault", "Bad input file", "obabel_ failed on x.sdf"}

\* join(lines) with "\n"
RECURSIVE JoinLines(_)
JoinLines(lines) ==
    IF lines = <<>> THEN ""
    ELSE IF Len(lines) = 1 THEN lines[1]
    ELSE lines[1] \o "\n" \o JoinLines(Tail(lines))

\* the sequences over S of length 0..n
RECURSIVE SeqsUpTo(_, _)
SeqsUpTo(S, n) ==
    IF n = 0 THEN {<<>>}
    ELSE LET shorter == SeqsUpTo(S, n - 1)
         IN  shorter \cup {Append(q, x) : q \in shorter, x \in S}

\* texts a failing tool run may leave on stderr: up to MaxMarkers marker lines,
\* possibly preceded by a noise line; or noise only; or nothing
MarkerTexts(names) ==
    {JoinLines([k \in 1..Len(q) |-> MarkerLine(q[k])]) : q \in SeqsUpTo(names, MaxMarkers) \ {<<>>}}
StderrTexts ==
    {""} \cup NoiseLines \cup MarkerTexts(ToolNames)
         \cup {n \o "\n" \o m : n \in NoiseLines, m \in MarkerTexts(ToolNames)}

\* sorted lists of at most n files of the universe
SortedListsUpTo(n) == {sorted(S) : S \in {T \in SUBSET LigandUniverse : Cardinality(T) <= n}}

---------------------------------------------------------------------------
(* The controller at rest, for the pure-function checks *)

NoCall == [fn |-> "none", done |-> TRUE]
HistIdle == [launches |-> <<>>, timeout_only |-> {}, entered |-> {}, skipped |-> {},
             arg |-> <<>>, submitted |-> <<>>, outcomes |-> <<>>, outcome |-> "none",
             identified |-> <<>>, timed_out |-> {}, conforming |-> TRUE, run |-> 1,
             receptor_exists |-> TRUE, ligand_dir_exists |-> TRUE]

ControllerIdle ==
    /\ ligand_tree = {}
    /\ mcresult = [exists |-> FALSE, files |-> {}]
    /\ output_files = <<>>
    /\ shutdown_requested = FALSE
    /\ pc = "idle"
    /\ exit_code = -1
    /\ all_ligand_files = <<>>
    /\ ligand_files = <<>>
    /\ chunks = <<>>
    /\ chunk_num = 0
    /\ successful_chunks = 0
    /\ failed_chunks = 0
    /\ failed_chunk_numbers = <<>>
    /\ chunk_ligands = <<>>
    /\ remaining_ligands = <<>>
    /\ failed_ligands = <<>>
    /\ successful_ligands = <<>>
    /\ attempt = 0
    /\ chunk_success = FALSE
    /\ poisoned = {}
    /\ hist = HistIdle

controllerVars == <<ligand_tree, mcresult, output_files, shutdown_requested, pc, exit_code,
          all_ligand_files, ligand_files, chunks, chunk_num, successful_chunks,
          failed_chunks, failed_chunk_numbers, chunk_ligands, remaining_ligands,
          failed_ligands, successful_ligands, attempt, chunk_success, poisoned, hist>>

---------------------------------------------------------------------------
(* create_chunks applied to every item list and chunk size within the bounds *)

ChunkItems == {"a.sdf", "b.sdf"}

InitChunks ==
    /\ ControllerIdle
    /\ py \in {[fn |-> "create_chunks", files |-> f, chunk_size |-> n, done |-> FALSE,
                result |-> Returned(<<>>)] :
               f \in SeqsUpTo(ChunkItems, MaxItems), n \in (0 - MaxSize)..MaxSize}

CallCreateChunks ==
    /\ py.fn = "create_chunks"
    /\ ~py.done
    /\ py' = [py EXCEPT !.done = TRUE, !.result = create_chunks(py.files, py.chunk_size)]
    /\ UNCHANGED controllerVars

SpecChunks == InitChunks /\ [][CallCreateChunks]_vars

---------------------------------------------------------------------------
(* extract_failed_ligands_from_error applied to stderr texts and submitted lists *)

InitDiag ==
    /\ ControllerIdle
    /\ py \in {[fn |-> "extract_failed_ligands_from_error", stderr |-> e, ligand_list |-> l,
                done |-> FALSE, result |-> <<>>] :
               e \in {<<>>} \cup {<<t>> : t \in StderrTexts},
               l \in SortedListsUpTo(MaxCatalog)}

CallExtract ==
    /\ py.fn = "extract_failed_ligands_from_error"
    /\ ~py.done
    /\ py' = [py EXCEPT !.done = TRUE,
                        !.result = extract_failed_ligands_from_error(py.stderr, py.ligand_list)]
    /\ UNCHANGED controllerVars

SpecDiag == InitDiag /\ [][CallExtract]_vars

---------------------------------------------------------------------------
(* Configuration and file-system helpers of the controller *)

\* LIGANDS_PER_CHUNK is 250 in mcdockv2.py (line 32); it is scaled to the catalog bound here
LIGANDS_PER_CHUNK == 2

\* max_attempts of run_mcdock_chunk_with_retry
max_attempts == 3

Digit(n) == SubSeq("0123456789", n + 1, n + 1)

\* os.path.abspath for the paths of the model (cwd is /w)
abspath(p) == IF PySlice(p, 0, 1) = "/" THEN p ELSE "/w/" \o p

\* chunk_{chunk_num}_attempt_{attempt + 1}_ligand_list.txt
chunk_list_name(n, a) == "chunk_" \o Digit(n) \o "_attempt_" \o Digit(a + 1) \o "_ligand_list.txt"

\* chunk_{chunk_num}_failed_ligands.txt
failed_file_name(n) == "chunk_" \o Digit(n) \o "_failed_ligands.txt"

\* open(name, "w") ... write(lines): creates or truncates
WriteFile(dir, name, lines) ==
    [x \in (DOMAIN dir) \cup {name} |-> IF x = name THEN lines ELSE dir[x]]

\* os.remove(name) guarded by os.path.exists
RemoveFile(dir, name) == [x \in (DOMAIN dir) \ {name} |-> dir[x]]

\* quick_file_test(ligand_files): the files found accessible, in order; `readable`
\* is what the file system answers
quick_file_test(files, readable) == SelectSeq(files, LAMBDA f : f \in readable)

\* the output artifact the external tool deposits for an input it completed
OutputName(p) == splitext_root(basename(p)) \o ".sdf"

\* basename and OutputName of the files of the universe, tabulated once
BasenameOf == [p \in LigandUniverse |-> basename(p)]
OutputNameOf == [p \in LigandUniverse |-> OutputName(p)]

\* the results directory after the tool has written the outputs of `done`
ToolWrites(d, done) ==
    LET names == {OutputNameOf[p] : p \in done}
    IN  [exists |-> d.exists \/ done # {},
         files |-> {f \in d.files : f.name \notin names} \cup {[name |-> n, size |-> 1] : n \in names}]

\* results directories a run may start from: missing, or holding empty or
\* non-empty outputs of some catalog items
ResultDirs(tree) ==
    LET names == {OutputName(p) : p \in tree}
    IN  {[exists |-> FALSE, files |-> {}]} \cup
        {[exists |-> TRUE, files |-> {[name |-> n, size |-> IF n \in Z THEN 0 ELSE 1] : n \in S}] :
            S \in SUBSET names, Z \in {Y \in SUBSET names : Cardinality(Y) <= MaxEmptyOutputs}}

\* ways a tool run fails with a non-zero status in the controller model: it prints
\* nothing, a line without a marker, or marker lines for the inputs in `names`
ToolFailureModes ==
    {[noise |-> n, names |-> <<>>] : n \in {"", "Segmentation fault"}} \cup
    {[noise |-> "", names |-> q] : q \in SeqsUpTo(ToolNames, MaxMarkers) \ {<<>>}}

\* the stderr text of each failure mode
StderrOf ==
    [m \in ToolFailureModes |->
        IF m.names = <<>> THEN m.noise
        ELSE JoinLines([k \in 1..Len(m.names) |-> MarkerLine(m.names[k])])]

\* every list the controller can hold: the sorted sublists of the universe
AllLists == SortedListsUpTo(Cardinality(LigandUniverse))

\* extract_failed_ligands_from_error, tabulated once over the stderr texts and lists
\* of the controller model
Diagnosis ==
    [m \in ToolFailureModes |->
        [l \in AllLists |-> extract_failed_ligands_from_error(<<StderrOf[m]>>, l)]]

\* the hypothesis of quarantine convergence on one attempt: with a poisoned input
\* it fails, every marker names a poisoned submitted input and the items identified
\* from it are poisoned ones; without a poisoned input it succeeds
Conforms(submitted, outcome, names, identified) ==
    LET bad == Range(submitted) \cap poisoned
    IN  IF bad = {} THEN outcome = "ok"
        ELSE /\ outcome = "nonzero"
             /\ names # <<>>
             /\ Range(names) \subseteq {BasenameOf[p] : p \in bad}
             /\ identified # <<>>
             /\ Range(identified) \subseteq bad

---------------------------------------------------------------------------
(* run_mcdock_chunk_with_retry *)

\* lines 146-161: file test, early return, initialisation of the lists
Retry_Entry ==
    /\ pc = "retry_entry"
    /\ \E readable \in SUBSET Range(chunk_ligands) :
        LET accessible_files == quick_file_test(chunk_ligands, readable)
            used == IF Len(accessible_files) # Len(chunk_ligands)
                    THEN accessible_files ELSE chunk_ligands
        IN  /\ chunk_ligands' = used
            /\ hist' = [hist EXCEPT !.conforming = (Len(accessible_files) = Len(chunk_ligands))]
            /\ IF used = <<>>
               THEN /\ chunk_success' = FALSE
                    /\ pc' = "chunk_return"
                    /\ UNCHANGED <<remaining_ligands, failed_ligands, successful_ligands, attempt>>
               ELSE /\ failed_ligands' = <<>>
                    /\ successful_ligands' = <<>>
                    /\ remaining_ligands' = used
                    /\ attempt' = 0
                    /\ pc' = "attempt_loop"
                    /\ UNCHANGED chunk_success
    /\ UNCHANGED <<py, ligand_tree, mcresult, output_files, shutdown_requested, exit_code,
                   all_ligand_files, ligand_files, chunks, chunk_num, successful_chunks,
                   failed_chunks, failed_chunk_numbers, poisoned>>

\* variant of the launch that starts the subprocess and goes on without waiting for it
Attempt_Launch_nowait ==
    /\ pc = "attempt_loop"
    /\ attempt < max_attempts
    /\ IF remaining_ligands = <<>>
       THEN /\ pc' = "chunk_results"
            /\ UNCHANGED <<output_files, hist, attempt>>
       ELSE /\ output_files' = WriteFile(output_files, chunk_list_name(chunk_num, attempt),
                                  [k \in 1..Len(remaining_ligands) |-> abspath(remaining_ligands[k])])
            /\ hist' = [hist EXCEPT !.submitted = remaining_ligands, !.outcome = "running",
                                    !.identified = <<>>, !.launches[chunk_num] = @ + 1]
            /\ attempt' = attempt + 1
            /\ pc' = IF attempt + 1 < max_attempts THEN "attempt_loop" ELSE "chunk_results"
    /\ UNCHANGED <<py, ligand_tree, mcresult, shutdown_requested, exit_code,
                   all_ligand_files, ligand_files, chunks, chunk_num, successful_chunks,
                   failed_chunks, failed_chunk_numbers, chunk_ligands, remaining_ligands,
                   failed_ligands, successful_ligands, chunk_success, poisoned>>

\* lines 165-214: an iteration of the loop writes the index artifact and starts the
\* subprocess
Attempt_Launch ==
    /\ pc = "attempt_loop"
    /\ attempt < max_attempts
    /\ IF remaining_ligands = <<>>
       THEN /\ pc' = "chunk_results"
            /\ UNCHANGED <<output_files, hist>>
       ELSE /\ output_files' = WriteFile(output_files, chunk_list_name(chunk_num, attempt),
                                  [k \in 1..Len(remaining_ligands) |-> abspath(remaining_ligands[k])])
            /\ hist' = [hist EXCEPT !.submitted = remaining_ligands, !.outcome = "running",
                                    !.identified = <<>>, !.launches[chunk_num] = @ + 1]
            /\ pc' = "subprocess"
    /\ UNCHANGED <<py, ligand_tree, mcresult, shutdown_requested, exit_code,
                   all_ligand_files, ligand_files, chunks, chunk_num, successful_chunks,
                   failed_chunks, failed_chunk_numbers, chunk_ligands, remaining_ligands,
                   failed_ligands, successful_ligands, attempt, chunk_success, poisoned>>

\* variant of the failed start that handles OSError like a non-zero exit status of the
\* last attempt: the submitted items are marked as failed and the chunk goes on
Attempt_LaunchRaises_caught ==
    /\ pc = "attempt_loop"
    /\ attempt < max_attempts
    /\ remaining_ligands # <<>>
    /\ output_files' = RemoveFile(output_files, chunk_list_name(chunk_num, attempt))
    /\ hist' = [hist EXCEPT !.submitted = remaining_ligands, !.outcome = "oserror",
                            !.identified = <<>>, !.conforming = FALSE]
    /\ failed_ligands' = failed_ligands \o remaining_ligands
    /\ remaining_ligands' = <<>>
    /\ pc' = "chunk_results"
    /\ UNCHANGED <<py, ligand_tree, mcresult, shutdown_requested, exit_code,
                   all_ligand_files, ligand_files, chunks, chunk_num, successful_chunks,
                   failed_chunks, failed_chunk_numbers, chunk_ligands,
                   successful_ligands, attempt, chunk_success, poisoned>>

\* lines 171-214, 261-264: subprocess.run raises OSError (the executable cannot be
\* started); the finally clause removes the index artifact and the exception leaves
\* run_mcdock_chunk_with_retry and main, which ends the process with a traceback
Attempt_LaunchRaises ==
    /\ pc = "attempt_loop"
    /\ attempt < max_attempts
    /\ remaining_ligands # <<>>
    /\ output_files' = RemoveFile(output_files, chunk_list_name(chunk_num, attempt))
    /\ hist' = [hist EXCEPT !.submitted = remaining_ligands, !.outcome = "oserror",
                            !.identified = <<>>, !.conforming = FALSE]
    /\ pc' = "crashed"
    /\ exit_code' = 1
    /\ UNCHANGED <<py, ligand_tree, mcresult, shutdown_requested,
                   all_ligand_files, ligand_files, chunks, chunk_num, successful_chunks,
                   failed_chunks, failed_chunk_numbers, chunk_ligands, remaining_ligands,
                   failed_ligands, successful_ligands, attempt, chunk_success, poisoned>>

\* variant of the success that reports every item of the chunk as successful
Attempt_Succeeds_whole_chunk ==
    /\ pc = "subprocess"
    /\ \E done \in SUBSET (Range(remaining_ligands) \ poisoned) :
        mcresult' = ToolWrites(mcresult, done)
    /\ successful_ligands' = successful_ligands \o chunk_ligands
    /\ output_files' = RemoveFile(output_files, chunk_list_name(chunk_num, attempt))
    /\ hist' = [hist EXCEPT !.outcome = "ok",
                            !.outcomes = Append(@, "ok"),
                            !.conforming = @ /\ Conforms(remaining_ligands, "ok", <<>>, <<>>)]
    /\ pc' = "chunk_results"
    /\ UNCHANGED <<py, ligand_tree, shutdown_requested, exit_code,
                   all_ligand_files, ligand_files, chunks, chunk_num, successful_chunks,
                   failed_chunks, failed_chunk_numbers, chunk_ligands, remaining_ligands,
                   failed_ligands, attempt, chunk_success, poisoned>>

\* lines 213-219, 261-264: exit status 0
Attempt_Succeeds ==
    /\ pc = "subprocess"
    /\ \E done \in SUBSET (Range(remaining_ligands) \ poisoned) :
        mcresult' = ToolWrites(mcresult, done)
    /\ successful_ligands' = successful_ligands \o remaining_ligands
    /\ output_files' = RemoveFile(output_files, chunk_list_name(chunk_num, attempt))
    /\ hist' = [hist EXCEPT !.outcome = "ok",
                            !.outcomes = Append(@, "ok"),
                            !.conforming = @ /\ Conforms(remaining_ligands, "ok", <<>>, <<>>)]
    /\ pc' = "chunk_results"
    /\ UNCHANGED <<py, ligand_tree, shutdown_requested, exit_code,
                   all_ligand_files, ligand_files, chunks, chunk_num, successful_chunks,
                   failed_chunks, failed_chunk_numbers, chunk_ligands, remaining_ligands,
                   failed_ligands, attempt, chunk_success, poisoned>>

\* variant of the failure handling that starts the next attempt with the same items
\* when no item was identified
Attempt_Fails_retry_same ==
    /\ pc = "subprocess"
    /\ \E done \in SUBSET (Range(remaining_ligands) \ poisoned) :
        mcresult' = ToolWrites(mcresult, done)
    /\ \E mode \in ToolFailureModes :
        LET failed_in_attempt == Diagnosis[mode][remaining_ligands]
            kept == SelectSeq(remaining_ligands, LAMBDA ligand : ligand \notin Range(failed_in_attempt))
        IN  /\ hist' = [hist EXCEPT !.outcome = "nonzero",
                                    !.identified = failed_in_attempt,
                                    !.outcomes = Append(@, "nonzero"),
                                    !.conforming = @ /\ Conforms(remaining_ligands, "nonzero", mode.names,
                                                                failed_in_attempt)]
            /\ IF failed_in_attempt # <<>>
               THEN /\ failed_ligands' = failed_ligands \o failed_in_attempt
                    /\ remaining_ligands' = kept
                    /\ IF kept # <<>> /\ attempt + 1 < max_attempts
                       THEN /\ attempt' = attempt + 1
                            /\ pc' = "attempt_loop"
                       ELSE /\ pc' = "chunk_results"
                            /\ UNCHANGED attempt
               ELSE IF attempt = max_attempts - 1
                    THEN /\ failed_ligands' = failed_ligands \o remaining_ligands
                         /\ remaining_ligands' = <<>>
                         /\ pc' = "chunk_results"
                         /\ UNCHANGED attempt
                    ELSE /\ UNCHANGED <<failed_ligands, remaining_ligands>>
                         /\ attempt' = attempt + 1
                         /\ pc' = "attempt_loop"
    /\ output_files' = RemoveFile(output_files, chunk_list_name(chunk_num, attempt))
    /\ UNCHANGED <<py, ligand_tree, shutdown_requested, exit_code,
                   all_ligand_files, ligand_files, chunks, chunk_num, successful_chunks,
                   failed_chunks, failed_chunk_numbers, chunk_ligands,
                   successful_ligands, chunk_success, poisoned>>

\* variant of the failure handling that records the identified items and submits the
\* whole list again
Attempt_Fails_requeue ==
    /\ pc = "subprocess"
    /\ \E done \in SUBSET (Range(remaining_ligands) \ poisoned) :
        mcresult' = ToolWrites(mcresult, done)
    /\ \E mode \in ToolFailureModes :
        LET failed_in_attempt == Diagnosis[mode][remaining_ligands]
        IN  /\ hist' = [hist EXCEPT !.outcome = "nonzero",
                                    !.identified = failed_in_attempt,
                                    !.outcomes = Append(@, "nonzero"),
                                    !.conforming = @ /\ Conforms(remaining_ligands, "nonzero", mode.names,
                                                                failed_in_attempt)]
            /\ IF failed_in_attempt # <<>>
               THEN /\ failed_ligands' = failed_ligands \o failed_in_attempt
                    /\ UNCHANGED remaining_ligands
                    /\ IF attempt + 1 < max_attempts
                       THEN /\ attempt' = attempt + 1
                            /\ pc' = "attempt_loop"
                       ELSE /\ pc' = "chunk_results"
                            /\ UNCHANGED attempt
               ELSE /\ IF attempt = max_attempts - 1
                       THEN /\ failed_ligands' = failed_ligands \o remaining_ligands
                            /\ remaining_ligands' = <<>>
                       ELSE UNCHANGED <<failed_ligands, remaining_ligands>>
                    /\ pc' = "chunk_results"
                    /\ UNCHANGED attempt
    /\ output_files' = RemoveFile(output_files, chunk_list_name(chunk_num, attempt))
    /\ UNCHANGED <<py, ligand_tree, shutdown_requested, exit_code,
                   all_ligand_files, ligand_files, chunks, chunk_num, successful_chunks,
                   failed_chunks, failed_chunk_numbers, chunk_ligands,
                   successful_ligands, chunk_success, poisoned>>

\* variant of the failure handling that retries whatever the number of attempts made
Attempt_Fails_uncounted ==
    /\ pc = "subprocess"
    /\ \E done \in SUBSET (Range(remaining_ligands) \ poisoned) :
        mcresult' = ToolWrites(mcresult, done)
    /\ \E mode \in ToolFailureModes :
        LET failed_in_attempt == Diagnosis[mode][remaining_ligands]
            kept == SelectSeq(remaining_ligands, LAMBDA ligand : ligand \notin Range(failed_in_attempt))
        IN  /\ hist' = [hist EXCEPT !.outcome = "nonzero",
                                    !.identified = failed_in_attempt,
                                    !.outcomes = Append(@, "nonzero"),
                                    !.conforming = @ /\ Conforms(remaining_ligands, "nonzero", mode.names,
                                                                failed_in_attempt)]
            /\ IF failed_in_attempt # <<>>
               THEN /\ failed_ligands' = failed_ligands \o failed_in_attempt
                    /\ remaining_ligands' = kept
                    /\ IF kept # <<>>
                       THEN /\ attempt' = attempt
                            /\ pc' = "attempt_loop"
                       ELSE \* break, or range(max_attempts) is exhausted
                            /\ pc' = "chunk_results"
                            /\ UNCHANGED attempt
               ELSE /\ IF attempt = max_attempts - 1
                       THEN /\ failed_ligands' = failed_ligands \o remaining_ligands
                            /\ remaining_ligands' = <<>>
                       ELSE UNCHANGED <<failed_ligands, remaining_ligands>>
                    /\ pc' = "chunk_results"
                    /\ UNCHANGED attempt
    /\ output_files' = RemoveFile(output_files, chunk_list_name(chunk_num, attempt))
    /\ UNCHANGED <<py, ligand_tree, shutdown_requested, exit_code,
                   all_ligand_files, ligand_files, chunks, chunk_num, successful_chunks,
                   failed_chunks, failed_chunk_numbers, chunk_ligands,
                   successful_ligands, chunk_success, poisoned>>

\* lines 165, 221-256, 261-264: non-zero exit status (CalledProcessError)
Attempt_Fails ==
    /\ pc = "subprocess"
    /\ \E done \in SUBSET (Range(remaining_ligands) \ poisoned) :
        mcresult' = ToolWrites(mcresult, done)
    /\ \E mode \in ToolFailureModes :
        LET failed_in_attempt == Diagnosis[mode][remaining_ligands]
            kept == SelectSeq(remaining_ligands, LAMBDA ligand : ligand \notin Range(failed_in_attempt))
        IN  /\ hist' = [hist EXCEPT !.outcome = "nonzero",
                                    !.identified = failed_in_attempt,
                                    !.outcomes = Append(@, "nonzero"),
                                    !.conforming = @ /\ Conforms(remaining_ligands, "nonzero", mode.names,
                                                                failed_in_attempt)]
            /\ IF failed_in_attempt # <<>>
               THEN /\ failed_ligands' = failed_ligands \o failed_in_attempt
                    /\ remaining_ligands' = kept
                    /\ IF kept # <<>> /\ attempt + 1 < max_attempts
                       THEN /\ attempt' = attempt + 1
                            /\ pc' = "attempt_loop"
                       ELSE \* break, or range(max_attempts) is exhausted
                            /\ pc' = "chunk_results"
                            /\ UNCHANGED attempt
               ELSE /\ IF attempt = max_attempts - 1
                       THEN /\ failed_ligands' = failed_ligands \o remaining_ligands
                            /\ remaining_ligands' = <<>>
                       ELSE UNCHANGED <<failed_ligands, remaining_ligands>>
                    /\ pc' = "chunk_results"
                    /\ UNCHANGED attempt
    /\ output_files' = RemoveFile(output_files, chunk_list_name(chunk_num, attempt))
    /\ UNCHANGED <<py, ligand_tree, shutdown_requested, exit_code,
                   all_ligand_files, ligand_files, chunks, chunk_num, successful_chunks,
                   failed_chunks, failed_chunk_numbers, chunk_ligands,
                   successful_ligands, chunk_success, poisoned>>

\* variant of the wait without a timeout: TimeoutExpired is never raised
Attempt_TimesOut_never ==
    /\ pc = "subprocess"
    /\ FALSE
    /\ UNCHANGED vars

\* lines 258-264: the subprocess exceeds timeout=36000 and is killed by subprocess.run
Attempt_TimesOut ==
    /\ pc = "subprocess"
    /\ \E done \in SUBSET (Range(remaining_ligands) \ poisoned) :
        mcresult' = ToolWrites(mcresult, done)
    /\ hist' = [hist EXCEPT !.outcome = "timeout",
                            !.outcomes = Append(@, "timeout"),
                            !.timeout_only = IF hist.outcomes = <<>> THEN @ \cup {chunk_num} ELSE @,
                            !.timed_out = @ \cup Range(remaining_ligands),
                            !.conforming = FALSE]
    /\ output_files' = RemoveFile(output_files, chunk_list_name(chunk_num, attempt))
    /\ pc' = "chunk_results"
    /\ UNCHANGED <<py, ligand_tree, shutdown_requested, exit_code,
                   all_ligand_files, ligand_files, chunks, chunk_num, successful_chunks,
                   failed_chunks, failed_chunk_numbers, chunk_ligands, remaining_ligands,
                   failed_ligands, successful_ligands, attempt, chunk_success, poisoned>>

\* variant of the returned value that also passes a chunk without any success
success_always(successful) == Len(successful) >= 0

\* line 280: success = len(successful_ligands) > 0
success(successful) == Len(successful) > 0

\* lines 266-286: write the failure file, compute the returned value
Chunk_Results ==
    /\ pc = "chunk_results"
    /\ output_files' = IF failed_ligands # <<>>
                       THEN WriteFile(output_files, failed_file_name(chunk_num), failed_ligands)
                       ELSE output_files
    /\ chunk_success' = success(successful_ligands)
    /\ pc' = "chunk_return"
    /\ UNCHANGED <<py, ligand_tree, mcresult, shutdown_requested, exit_code,
                   all_ligand_files, ligand_files, chunks, chunk_num, successful_chunks,
                   failed_chunks, failed_chunk_numbers, chunk_ligands, remaining_ligands,
                   failed_ligands, successful_ligands, attempt, poisoned, hist>>

RetryNext ==
    \/ Retry_Entry
    \/ Attempt_Launch
    \/ Attempt_LaunchRaises
    \/ Attempt_Succeeds
    \/ Attempt_Fails
    \/ Attempt_TimesOut
    \/ Chunk_Results

\* run_mcdock_chunk_with_retry called on every chunk within the bounds
InitRetry ==
    /\ py = NoCall
    /\ ligand_tree = {}
    /\ mcresult = [exists |-> FALSE, files |-> {}]
    /\ output_files = <<>>
    /\ shutdown_requested = FALSE
    /\ pc = "retry_entry"
    /\ exit_code = -1
    /\ all_ligand_files = <<>>
    /\ ligand_files = <<>>
    /\ chunk_ligands \in SortedListsUpTo(MaxChunkLen) \ {<<>>}
    /\ chunks = <<chunk_ligands>>
    /\ chunk_num = 1
    /\ successful_chunks = 0
    /\ failed_chunks = 0
    /\ failed_chunk_numbers = <<>>
    /\ remaining_ligands = <<>>
    /\ failed_ligands = <<>>
    /\ successful_ligands = <<>>
    /\ attempt = 0
    /\ chunk_success = FALSE
    /\ poisoned \in SUBSET {p \in Range(chunk_ligands) : PyEndsWith(p, ".sdf")}
    /\ hist = [HistIdle EXCEPT !.launches = <<0>>, !.entered = {1}, !.arg = chunk_ligands]

SpecRetry == InitRetry /\ [][RetryNext]_vars

---------------------------------------------------------------------------
(* signal_handler and main *)

\* variant of the handler that abandons the chunk in flight
signal_handler_preemptive ==
    /\ pc \notin {"idle", "exited", "crashed"}
    /\ shutdown_requested' = TRUE
    /\ pc' = IF pc \in {"retry_entry", "attempt_loop", "subprocess", "chunk_results"}
             THEN "summary" ELSE pc
    /\ UNCHANGED <<py, ligand_tree, mcresult, output_files, exit_code,
                   all_ligand_files, ligand_files, chunks, chunk_num, successful_chunks,
                   failed_chunks, failed_chunk_numbers, chunk_ligands, remaining_ligands,
                   failed_ligands, successful_ligands, attempt, chunk_success, poisoned, hist>>

\* lines 16-19: SIGINT or SIGTERM while the process runs
signal_handler ==
    /\ pc \notin {"idle", "exited", "crashed"}
    /\ shutdown_requested' = TRUE
    /\ UNCHANGED <<py, ligand_tree, mcresult, output_files, pc, exit_code,
                   all_ligand_files, ligand_files, chunks, chunk_num, successful_chunks,
                   failed_chunks, failed_chunk_numbers, chunk_ligands, remaining_ligands,
                   failed_ligands, successful_ligands, attempt, chunk_success, poisoned, hist>>

mainLocals == <<all_ligand_files, ligand_files, chunks, chunk_num, successful_chunks,
                failed_chunks, failed_chunk_numbers>>
retryLocals == <<chunk_ligands, remaining_ligands, failed_ligands, successful_ligands,
                 attempt, chunk_success>>

\* variant of the validation that only warns about a missing receptor file or ligand
\* directory
Main_Validate_lenient ==
    /\ pc = "main"
    /\ \E receptor_exists \in BOOLEAN,
          ligand_dir_exists \in (IF ligand_tree = {} THEN BOOLEAN ELSE {TRUE}) :
        /\ hist' = [hist EXCEPT !.receptor_exists = receptor_exists,
                                !.ligand_dir_exists = ligand_dir_exists]
        /\ pc' = "discover"
        /\ UNCHANGED exit_code
    /\ UNCHANGED <<py, ligand_tree, mcresult, output_files, shutdown_requested,
                   mainLocals, retryLocals, poisoned>>

\* lines 380-387: the receptor file and the ligand directory must exist
Main_Validate ==
    /\ pc = "main"
    /\ \E receptor_exists \in BOOLEAN,
          ligand_dir_exists \in (IF ligand_tree = {} THEN BOOLEAN ELSE {TRUE}) :
        /\ hist' = [hist EXCEPT !.receptor_exists = receptor_exists,
                                !.ligand_dir_exists = ligand_dir_exists]
        /\ IF receptor_exists /\ ligand_dir_exists
           THEN pc' = "discover" /\ UNCHANGED exit_code
           ELSE pc' = "exited" /\ exit_code' = 1
    /\ UNCHANGED <<py, ligand_tree, mcresult, output_files, shutdown_requested,
                   mainLocals, retryLocals, poisoned>>

\* variant of the discovery in which listing a missing results directory raises, the
\* exception leaving main
Main_Discover_listdir_raises ==
    /\ pc = "discover"
    /\ LET found == sorted({p \in ligand_tree : PyEndsWith(p, ".sdf")} \cup
                           {p \in ligand_tree : PyEndsWith(p, ".pdbqt")})
           completed_ligands == get_completed_ligands(mcresult)
           filtered == filter_completed_ligands(found, completed_ligands)
       IN  IF found = <<>>
           THEN /\ pc' = "exited"
                /\ exit_code' = 1
                /\ UNCHANGED <<all_ligand_files, ligand_files>>
           ELSE /\ all_ligand_files' = found
                /\ IF ~mcresult.exists
                   THEN /\ pc' = "crashed"
                        /\ exit_code' = 1
                        /\ UNCHANGED ligand_files
                   ELSE IF completed_ligands # {}
                   THEN /\ ligand_files' = filtered
                        /\ IF filtered = <<>>
                           THEN pc' = "exited" /\ exit_code' = 0
                           ELSE pc' = "plan" /\ UNCHANGED exit_code
                   ELSE /\ ligand_files' = found
                        /\ pc' = "plan"
                        /\ UNCHANGED exit_code
    /\ UNCHANGED <<py, ligand_tree, mcresult, output_files, shutdown_requested,
                   chunks, chunk_num, successful_chunks, failed_chunks, failed_chunk_numbers,
                   retryLocals, poisoned, hist>>

\* lines 389-413: catalog, completion set, pending list
Main_Discover ==
    /\ pc = "discover"
    /\ LET found == sorted({p \in ligand_tree : PyEndsWith(p, ".sdf")} \cup
                           {p \in ligand_tree : PyEndsWith(p, ".pdbqt")})
           completed_ligands == get_completed_ligands(mcresult)
           filtered == filter_completed_ligands(found, completed_ligands)
       IN  IF found = <<>>
           THEN /\ pc' = "exited"
                /\ exit_code' = 1
                /\ UNCHANGED <<all_ligand_files, ligand_files>>
           ELSE /\ all_ligand_files' = found
                /\ IF completed_ligands # {}
                   THEN /\ ligand_files' = filtered
                        /\ IF filtered = <<>>
                           THEN pc' = "exited" /\ exit_code' = 0
                           ELSE pc' = "plan" /\ UNCHANGED exit_code
                   ELSE /\ ligand_files' = found
                        /\ pc' = "plan"
                        /\ UNCHANGED exit_code
    /\ UNCHANGED <<py, ligand_tree, mcresult, output_files, shutdown_requested,
                   chunks, chunk_num, successful_chunks, failed_chunks, failed_chunk_numbers,
                   retryLocals, poisoned, hist>>

\* lines 417-430: the plan and the counters
Main_Plan ==
    /\ pc = "plan"
    /\ LET planned == create_chunks(ligand_files, LIGANDS_PER_CHUNK)
       IN  IF planned.raised # ""
           THEN /\ pc' = "crashed"
                /\ exit_code' = 1
                /\ UNCHANGED <<chunks, chunk_num, successful_chunks, failed_chunks,
                               failed_chunk_numbers, hist>>
           ELSE /\ chunks' = planned.value
                /\ chunk_num' = 1
                /\ successful_chunks' = 0
                /\ failed_chunks' = 0
                /\ failed_chunk_numbers' = <<>>
                /\ hist' = [hist EXCEPT !.launches = [k \in 1..Len(planned.value) |-> 0]]
                /\ pc' = "chunk_loop"
                /\ UNCHANGED exit_code
    /\ UNCHANGED <<py, ligand_tree, mcresult, output_files, shutdown_requested,
                   all_ligand_files, ligand_files, retryLocals, poisoned>>

\* line 433: enumerate(chunks, 1) is exhausted
Main_LoopEnd ==
    /\ pc = "chunk_loop"
    /\ chunk_num > Len(chunks)
    /\ pc' = "summary"
    /\ UNCHANGED <<py, ligand_tree, mcresult, output_files, shutdown_requested, exit_code,
                   mainLocals, retryLocals, poisoned, hist>>

\* lines 434-436: the flag is seen at the head of an iteration
Main_ShutdownBreak ==
    /\ pc = "chunk_loop"
    /\ chunk_num <= Len(chunks)
    /\ shutdown_requested
    /\ pc' = "summary"
    /\ UNCHANGED <<py, ligand_tree, mcresult, output_files, shutdown_requested, exit_code,
                   mainLocals, retryLocals, poisoned, hist>>

\* lines 437-444: every ligand of the chunk is already completed
Main_SkipChunk ==
    /\ pc = "chunk_loop"
    /\ chunk_num <= Len(chunks)
    /\ ~shutdown_requested
    /\ filter_completed_ligands(chunks[chunk_num], get_completed_ligands(mcresult)) = <<>>
    /\ successful_chunks' = successful_chunks + 1
    /\ chunk_num' = chunk_num + 1
    /\ hist' = [hist EXCEPT !.skipped = @ \cup {chunk_num}]
    /\ UNCHANGED <<py, ligand_tree, mcresult, output_files, shutdown_requested, pc, exit_code,
                   all_ligand_files, ligand_files, chunks, failed_chunks, failed_chunk_numbers,
                   retryLocals, poisoned>>

\* variant of the call that hands over the chunk as planned, without a fresh look at
\* the results directory
Main_CallChunk_unfiltered ==
    /\ pc = "chunk_loop"
    /\ chunk_num <= Len(chunks)
    /\ ~shutdown_requested
    /\ LET remaining_in_chunk == chunks[chunk_num]
       IN  /\ remaining_in_chunk # <<>>
           /\ chunk_ligands' = remaining_in_chunk
           /\ hist' = [hist EXCEPT !.entered = @ \cup {chunk_num}, !.arg = remaining_in_chunk,
                                   !.submitted = <<>>, !.outcomes = <<>>, !.outcome = "none",
                                   !.identified = <<>>,
                                   !.conforming = TRUE]
    /\ pc' = "retry_entry"
    /\ UNCHANGED <<py, ligand_tree, mcresult, output_files, shutdown_requested, exit_code,
                   mainLocals, remaining_ligands, failed_ligands, successful_ligands,
                   attempt, chunk_success, poisoned>>

\* lines 437-450: run_mcdock_chunk_with_retry(remaining_in_chunk, chunk_num, total_chunks)
Main_CallChunk ==
    /\ pc = "chunk_loop"
    /\ chunk_num <= Len(chunks)
    /\ ~shutdown_requested
    /\ LET remaining_in_chunk ==
               filter_completed_ligands(chunks[chunk_num], get_completed_ligands(mcresult))
       IN  /\ remaining_in_chunk # <<>>
           /\ chunk_ligands' = remaining_in_chunk
           /\ hist' = [hist EXCEPT !.entered = @ \cup {chunk_num}, !.arg = remaining_in_chunk,
                                   !.submitted = <<>>, !.outcomes = <<>>, !.outcome = "none",
                                   !.identified = <<>>,
                                   !.conforming = TRUE]
    /\ pc' = "retry_entry"
    /\ UNCHANGED <<py, ligand_tree, mcresult, output_files, shutdown_requested, exit_code,
                   mainLocals, remaining_ligands, failed_ligands, successful_ligands,
                   attempt, chunk_success, poisoned>>

\* lines 452-462: count the chunk; mcdockv2.py goes on with the next chunk whatever
\* the result (stop_on_failure = FALSE)
ChunkReturn(stop_on_failure) ==
    /\ pc = "chunk_return"
    /\ IF chunk_success
       THEN /\ successful_chunks' = successful_chunks + 1
            /\ UNCHANGED <<failed_chunks, failed_chunk_numbers>>
       ELSE /\ failed_chunks' = failed_chunks + 1
            /\ failed_chunk_numbers' = Append(failed_chunk_numbers, chunk_num)
            /\ UNCHANGED successful_chunks
    /\ chunk_num' = chunk_num + 1
    /\ pc' = IF stop_on_failure /\ ~chunk_success THEN "summary" ELSE "chunk_loop"
    \* the frame of run_mcdock_chunk_with_retry is gone
    /\ chunk_ligands' = <<>>
    /\ remaining_ligands' = <<>>
    /\ failed_ligands' = <<>>
    /\ successful_ligands' = <<>>
    /\ attempt' = 0
    /\ chunk_success' = FALSE
    /\ hist' = [hist EXCEPT !.arg = <<>>, !.submitted = <<>>, !.outcomes = <<>>,
                            !.outcome = "none", !.identified = <<>>, !.timed_out = {},
                            !.conforming = TRUE]
    /\ UNCHANGED <<py, ligand_tree, mcresult, output_files, shutdown_requested, exit_code,
                   all_ligand_files, ligand_files, chunks, poisoned>>

\* variant of the loop that stops at the first failed chunk
Main_ChunkReturn_stops == ChunkReturn(TRUE)

Main_ChunkReturn == ChunkReturn(FALSE)

\* lines 472-490: the final summary; main returns and the interpreter exits with 0
Main_Summary ==
    /\ pc = "summary"
    /\ pc' = "exited"
    /\ exit_code' = 0
    /\ UNCHANGED <<py, ligand_tree, mcresult, output_files, shutdown_requested,
                   mainLocals, retryLocals, poisoned, hist>>

Init ==
    /\ py = NoCall
    /\ ligand_tree \in {T \in SUBSET LigandUniverse : Cardinality(T) <= MaxCatalog}
    /\ mcresult \in ResultDirs(ligand_tree)
    /\ output_files = <<>>
    /\ shutdown_requested = FALSE
    /\ pc = "main"
    /\ exit_code = -1
    /\ all_ligand_files = <<>>
    /\ ligand_files = <<>>
    /\ chunks = <<>>
    /\ chunk_num = 0
    /\ successful_chunks = 0
    /\ failed_chunks = 0
    /\ failed_chunk_numbers = <<>>
    /\ chunk_ligands = <<>>
    /\ remaining_ligands = <<>>
    /\ failed_ligands = <<>>
    /\ successful_ligands = <<>>
    /\ attempt = 0
    /\ chunk_success = FALSE
    /\ poisoned = {}
    /\ hist = HistIdle

Next ==
    \/ signal_handler
    \/ Main_Validate
    \/ Main_Discover
    \/ Main_Plan
    \/ Main_LoopEnd
    \/ Main_ShutdownBreak
    \/ Main_SkipChunk
    \/ Main_CallChunk
    \/ Main_ChunkReturn
    \/ Main_Summary
    \/ Retry_Entry
    \/ Attempt_Launch
    \/ Attempt_LaunchRaises
    \/ Attempt_Succeeds
    \/ Attempt_Fails
    \/ Attempt_TimesOut
    \/ Chunk_Results

Spec == Init /\ [][Next]_vars

---------------------------------------------------------------------------
(* Properties *)

\* the recognized input extensions
InputExtensions == {".sdf", ".pdbqt"}

\* the work item p is completed in the results directory d: d holds a non-empty
\* artifact named by p's file name with its input extension replaced by .sdf
Completed(p, d) ==
    /\ d.exists
    /\ \E f \in d.files, ext \in InputExtensions :
        /\ f.size > 0
        /\ PyEndsWith(p, ext)
        /\ PyEndsWith(PyDropLast(p, Len(ext)) \o ".sdf", "/" \o f.name)

\* C1: idempotent resume.  When DISCOVER hands the pending list to the chunker, the
\* list is exactly the catalog items that are not completed in the results directory
\* the run started from, in catalog order; and the plan covers exactly that list.
C1_IdempotentResume ==
    /\ pc = "plan" =>
        /\ Range(all_ligand_files) = ligand_tree
        /\ ligand_files = SelectSeq(all_ligand_files, LAMBDA p : ~Completed(p, mcresult))
    /\ pc \in {"chunk_loop", "retry_entry", "attempt_loop", "subprocess", "chunk_results",
               "chunk_return", "summary"} =>
        /\ Concat(chunks) = ligand_files
        /\ \A k \in 1..Len(chunks) : chunks[k] # <<>>

\* a resumed run: one of three items is completed, the two others form one chunk
C1_Witness ==
    /\ pc = "chunk_loop"
    /\ chunk_num = 1
    /\ Len(all_ligand_files) = 3
    /\ Len(ligand_files) = 2
    /\ Len(chunks) = 1
    /\ hist.entered = {}

\* C2: chunk partition completeness.  For a chunk size n >= 1, create_chunks returns
\* chunks whose concatenation is the input list, each of 1..n items, and all but
\* possibly the last of exactly n items.
C2_ChunkPartition ==
    (py.fn = "create_chunks" /\ py.done /\ py.chunk_size >= 1) =>
        /\ py.result.raised = ""
        /\ LET cs == py.result.value
           IN  /\ Concat(cs) = py.files
               /\ \A k \in 1..Len(cs) : Len(cs[k]) >= 1 /\ Len(cs[k]) <= py.chunk_size
               /\ \A k \in 1..(Len(cs) - 1) : Len(cs[k]) = py.chunk_size

\* a list whose length is no multiple of the chunk size has been split in several chunks
C2_Witness ==
    /\ py.fn = "create_chunks"
    /\ py.done
    /\ py.chunk_size = 2
    /\ Len(py.files) = 3
    /\ Len(py.result.value) = 2

\* C3: with a chunk size <= 0, create_chunks fails for every item list and never
\* returns a list of chunks.
C3_NonPositiveSizeFails ==
    (py.fn = "create_chunks" /\ py.done /\ py.chunk_size <= 0) => py.result.raised # ""

\* the lines of a stderr value (none for None)
StderrLines(stderr) == IF stderr = <<>> THEN <<>> ELSE PySplit(stderr[1], "\n")

\* the line carries the 'Bad input file' marker
IsMarkerLine(line) == PyIn("Bad input file", line)

\* the line names the file of the work item p: one of its '/'-separated parts is
\* p's file name
Names(line, p) == \E k \in 1..Len(PySplit(line, "/")) : PySplit(line, "/")[k] = basename(p)

\* C4: the diagnoser never guesses.  When no line of stderr carries the marker
\* together with the file name of a submitted item (and when stderr is empty or
\* missing), extract_failed_ligands_from_error returns the empty list.
C4_NeverGuesses ==
    (py.fn = "extract_failed_ligands_from_error" /\ py.done) =>
        LET lines == StderrLines(py.stderr)
            input_specific == \E k \in 1..Len(lines), p \in Range(py.ligand_list) :
                                  IsMarkerLine(lines[k]) /\ PyIn(basename(p), lines[k])
        IN  ~input_specific => py.result = <<>>

\* C5: diagnoser precision.  When the submitted list holds two distinct items X and Y
\* and the only marker line of stderr names X's file and not Y's, the diagnoser
\* returns exactly X.
C5_Precision ==
    (py.fn = "extract_failed_ligands_from_error" /\ py.done) =>
        LET lines == StderrLines(py.stderr)
            marked == {k \in 1..Len(lines) : IsMarkerLine(lines[k])}
        IN  \A X, Y \in Range(py.ligand_list) :
                (/\ X # Y
                 /\ Cardinality(marked) = 1
                 /\ \A k \in marked : Names(lines[k], X) /\ ~Names(lines[k], Y))
                => py.result = <<X>>

\* the lines of the failure file of the current chunk (none when it was not written)
FailureFileLines ==
    IF failed_file_name(chunk_num) \in DOMAIN output_files
    THEN Range(output_files[failed_file_name(chunk_num)])
    ELSE {}

\* C6: quarantine convergence.  A chunk of N accessible items of which K are poisoned,
\* every attempt behaving as the hypothesis says and every identified item being a
\* poisoned one (hist.conforming), is left after at most K+1 subprocess attempts with the N-K healthy items successful and the K
\* poisoned items failed.
C6_QuarantineConvergence ==
    (pc = "chunk_return" /\ hist.conforming) =>
        LET bad == Range(hist.arg) \cap poisoned
        IN  /\ hist.launches[chunk_num] <= Cardinality(bad) + 1
            /\ Range(successful_ligands) = Range(hist.arg) \ bad
            /\ Range(failed_ligands) = bad
            /\ FailureFileLines = bad

\* C7: after an attempt that exits non-zero without any item identified, with
\* attempts left, the controller is back at the head of the loop with the same items,
\* about to submit them again.
C7_RetrySameSet ==
    (/\ pc \in {"attempt_loop", "chunk_results", "chunk_return"}
     /\ hist.outcome = "nonzero"
     /\ hist.identified = <<>>
     /\ Len(hist.outcomes) < max_attempts)
    => (pc = "attempt_loop" /\ remaining_ligands = hist.submitted)

\* C8: when the last permitted attempt of a chunk has failed, every item of the chunk
\* is successful or is in the failed list and in the failure file when the chunk
\* returns.
C8_ExhaustedMarksAllFailed ==
    (/\ pc = "chunk_return"
     /\ Len(hist.outcomes) = max_attempts
     /\ hist.outcome \in {"nonzero", "timeout"})
    => \A item \in Range(chunk_ligands) :
           \/ item \in Range(successful_ligands)
           \/ item \in Range(failed_ligands) /\ item \in FailureFileLines

\* C9: a failed chunk does not abort the run.  When the loop is left without a
\* shutdown request, every chunk after a failed one was handed to
\* run_mcdock_chunk_with_retry, or was skipped because nothing of it was pending.
C9_FailedChunkDoesNotAbort ==
    (pc \in {"summary", "exited"} /\ ~shutdown_requested) =>
        \A i \in Range(failed_chunk_numbers) :
            \A j \in (i + 1)..Len(chunks) : j \in hist.entered \cup hist.skipped

\* the first of two chunks failed and the second one was run
C9_Witness ==
    /\ pc = "summary"
    /\ ~shutdown_requested
    /\ failed_chunk_numbers = <<1>>
    /\ Len(chunks) = 2
    /\ hist.launches[2] >= 1

\* C10: timeout safety.  A timed-out subprocess has ended; no item of a timed-out
\* attempt is in the successful list; a chunk whose only attempt timed out returns
\* failure and is counted as a failed chunk, never as a successful one.
C10_TimeoutSafety ==
    /\ hist.outcome = "timeout" => pc # "subprocess"
    /\ hist.timed_out \cap Range(successful_ligands) = {}
    /\ (pc = "chunk_return" /\ chunk_num \in hist.timeout_only) => ~chunk_success
    /\ pc \in {"chunk_loop", "summary"} =>
        /\ \A c \in hist.timeout_only : c \in Range(failed_chunk_numbers)
        /\ successful_chunks <= Cardinality((1..(chunk_num - 1)) \ hist.timeout_only)

\* the only attempt of the first chunk timed out and the chunk was counted as failed
C10_Witness ==
    /\ pc = "chunk_loop"
    /\ chunk_num = 2
    /\ hist.timeout_only = {1}
    /\ hist.launches[1] = 1
    /\ failed_chunks = 1
    /\ successful_chunks = 0

\* C11: a timeout is a transient failure.  After an attempt that timed out, with
\* attempts left, the controller is back at the head of the loop with the same items;
\* and when the chunk returns after a timed-out attempt, every item of that attempt is
\* in the failed list and in the failure file.
C11_TimeoutIsTransient ==
    /\ (/\ pc \in {"attempt_loop", "chunk_results", "chunk_return"}
        /\ hist.outcome = "timeout"
        /\ Len(hist.outcomes) < max_attempts)
       => (pc = "attempt_loop" /\ remaining_ligands = hist.submitted)
    /\ (pc = "chunk_return" /\ hist.outcome = "timeout")
       => \A item \in Range(hist.submitted) :
              item \in Range(failed_ligands) /\ item \in FailureFileLines

\* line 89: the canonical name of a work item, tabulated over the universe
CanonicalNameOf == [p \in LigandUniverse |-> splitext_root(basename(p))]

\* C12: the exit code is 0 only if every discovered work item is in the completion
\* set when the run ends.
C12_ExitZeroOnlyIfAllComplete ==
    (pc = "exited" /\ exit_code = 0) =>
        \A p \in Range(all_ligand_files) : CanonicalNameOf[p] \in get_completed_ligands(mcresult)

\* positions of the controller inside run_mcdock_chunk_with_retry
InChunk == {"retry_entry", "attempt_loop", "subprocess", "chunk_results"}

\* everything but the shutdown flag
allButFlag == <<py, ligand_tree, mcresult, output_files, pc, exit_code,
                all_ligand_files, ligand_files, chunks, chunk_num, successful_chunks,
                failed_chunks, failed_chunk_numbers, chunk_ligands, remaining_ligands,
                failed_ligands, successful_ligands, attempt, chunk_success, poisoned, hist>>

\* one step of a cooperative interrupt
C13_Step ==
    \* a signal only sets the flag
    /\ shutdown_requested' # shutdown_requested =>
           (shutdown_requested' = TRUE /\ UNCHANGED allButFlag)
    \* a subprocess in flight ends by its own exit status or timeout only
    /\ (pc = "subprocess" /\ pc' # "subprocess") =>
           (hist'.outcome \in {"ok", "nonzero", "timeout"} /\ pc' \in {"attempt_loop", "chunk_results"})
    \* the chunk in flight is neither abandoned nor skipped, flag or no flag
    /\ pc \in InChunk => pc' \notin {"chunk_loop", "summary", "exited"}
    /\ (pc = "chunk_return" /\ pc' # pc) =>
           /\ pc' = "chunk_loop"
           /\ chunk_num' = chunk_num + 1
           /\ successful_chunks' + failed_chunks' = successful_chunks + failed_chunks + 1
    \* once the flag is set, the controller at a chunk boundary starts nothing
    /\ (pc = "chunk_loop" /\ shutdown_requested) =>
           /\ pc' \in {"chunk_loop", "summary"}
           /\ ENABLED (Main_ShutdownBreak \/ Main_LoopEnd)
           /\ hist'.entered = hist.entered
           /\ hist'.skipped = hist.skipped
           /\ hist'.launches = hist.launches
           /\ UNCHANGED <<chunk_num, successful_chunks, failed_chunks, failed_chunk_numbers,
                          mcresult, output_files>>
    \* the summary is reached with the counts of the chunks gone through
    /\ (pc' = "summary" /\ pc # "summary") =>
           /\ successful_chunks' + failed_chunks' = chunk_num' - 1
           /\ hist'.entered \cup hist'.skipped = 1..(chunk_num' - 1)

\* C13: cooperative interrupt.  A signal only sets the shutdown flag; the flag is
\* looked at between chunks only, so the subprocess of the chunk in flight ends by
\* itself and the chunk is counted; with the flag set no later chunk is entered,
\* skipped or launched: the only step the controller can take there, and one it can
\* always take, leads to the final summary, which is reached with the partial counts.
C13_CooperativeInterrupt == [][C13_Step]_vars

\* the signal arrived during the first of two chunks, whose subprocess then ended
\* with exit status 0
C13_Witness ==
    /\ shutdown_requested
    /\ pc = "chunk_results"
    /\ hist.outcome = "ok"
    /\ chunk_num = 1
    /\ Len(chunks) = 2

\* the index artifact of the attempt that ended last in the current chunk
LastIndexArtifact == chunk_list_name(chunk_num, Len(hist.outcomes) - 1)

\* C14: index artifact lifecycle.  While the tool runs, the index artifact of the
\* attempt exists and lists the submitted items; once an attempt has succeeded its
\* artifact is gone; once an attempt has failed (non-zero exit or timeout) its
\* artifact is still there.
C14_IndexArtifactLifecycle ==
    /\ pc = "subprocess" =>
        /\ chunk_list_name(chunk_num, attempt) \in DOMAIN output_files
        /\ output_files[chunk_list_name(chunk_num, attempt)] =
               [k \in 1..Len(hist.submitted) |-> abspath(hist.submitted[k])]
    /\ (pc \in {"attempt_loop", "chunk_results", "chunk_return"} /\ hist.outcome = "ok")
       => LastIndexArtifact \notin DOMAIN output_files
    /\ (pc \in {"attempt_loop", "chunk_results", "chunk_return"}
        /\ hist.outcome \in {"nonzero", "timeout"})
       => LastIndexArtifact \in DOMAIN output_files

---------------------------------------------------------------------------
(* The script run again over the directories a previous run left *)

\* lines 492-493: a new process executes main(); the file system is as the previous
\* run left it, the globals and locals are fresh
NewRun ==
    /\ pc \in {"exited", "crashed"}
    /\ hist.run < MaxRuns
    /\ pc' = "main"
    /\ exit_code' = -1
    /\ shutdown_requested' = FALSE
    /\ all_ligand_files' = <<>>
    /\ ligand_files' = <<>>
    /\ chunks' = <<>>
    /\ chunk_num' = 0
    /\ successful_chunks' = 0
    /\ failed_chunks' = 0
    /\ failed_chunk_numbers' = <<>>
    /\ chunk_ligands' = <<>>
    /\ remaining_ligands' = <<>>
    /\ failed_ligands' = <<>>
    /\ successful_ligands' = <<>>
    /\ attempt' = 0
    /\ chunk_success' = FALSE
    /\ hist' = [HistIdle EXCEPT !.run = hist.run + 1]
    /\ UNCHANGED <<py, ligand_tree, mcresult, output_files, poisoned>>

NextRuns ==
    \/ Next
    \/ NewRun

SpecRuns == Init /\ [][NextRuns]_vars

\* the failure files a run can write
FailureFileNames == {failed_file_name(n) : n \in 1..Cardinality(LigandUniverse)}

\* C15: the failure log is append-only.  In every step of a run or of a later run,
\* each failure file that exists still exists afterwards and every item recorded in
\* it is still recorded in it.
C15_FailureLogAppendOnly ==
    [][\A f \in FailureFileNames \cap DOMAIN output_files :
           /\ f \in DOMAIN output_files'
           /\ Range(output_files[f]) \subseteq Range(output_files'[f])]_vars

\* C16: with no results directory, get_completed_ligands returns the empty set, and
\* the discovery of a non-empty catalog goes on to the plan with every catalog item
\* pending.
C16_MissingResultsDir ==
    [][(pc = "discover" /\ pc' # "discover" /\ ~mcresult.exists /\ ligand_tree # {}) =>
           /\ get_completed_ligands(mcresult) = {}
           /\ pc' = "plan"
           /\ Range(all_ligand_files') = ligand_tree
           /\ ligand_files' = all_ligand_files']_vars

\* a fresh run over three files is about to plan all three
C16_Witness ==
    /\ pc = "plan"
    /\ ~mcresult.exists
    /\ Len(all_ligand_files) = 3
    /\ ligand_files = all_ligand_files

---------------------------------------------------------------------------
(* The completion oracle and the filter applied to directory listings *)

\* file names found in a results directory: outputs, and files of other kinds
OracleNames == {"1.sdf", "2.sdf", "2.pdbqt", "1.sdf.log"}

\* the listings over OracleNames, every file empty or not
OracleDirs ==
    {[exists |-> FALSE, files |-> {}]} \cup
    {[exists |-> TRUE, files |-> {[name |-> n, size |-> IF n \in Z THEN 0 ELSE 1] : n \in S}] :
        S \in SUBSET OracleNames, Z \in SUBSET OracleNames}

InitOracle ==
    /\ ControllerIdle
    /\ py \in {[fn |-> "get_completed_ligands", dir |-> d, ligand_files |-> l, done |-> FALSE,
                completed |-> {}, remaining |-> <<>>] :
               d \in OracleDirs, l \in SortedListsUpTo(MaxCatalog)}

\* lines 438-439 (and 400-404): the completion set is read and the list filtered with it
CallOracle ==
    /\ py.fn = "get_completed_ligands"
    /\ ~py.done
    /\ LET chunk_completed == get_completed_ligands(py.dir)
       IN  py' = [py EXCEPT !.done = TRUE,
                            !.completed = chunk_completed,
                            !.remaining = filter_completed_ligands(py.ligand_files, chunk_completed)]
    /\ UNCHANGED controllerVars

SpecOracle == InitOracle /\ [][CallOracle]_vars

\* C17: a name is in the completion set if and only if the results directory holds a
\* non-empty file called <name>.sdf; an item whose output artifact is empty stays
\* pending, whichever of the two input formats it has.
C17_CompletionIffNonEmptyOutput ==
    (py.fn = "get_completed_ligands" /\ py.done) =>
        LET files == IF py.dir.exists THEN py.dir.files ELSE {}
            stems == {PyDropLast(f.name, 4) : f \in files} \cup Range(CanonicalNameOf)
        IN  /\ py.completed \subseteq stems
            /\ \A n \in stems :
                   n \in py.completed <=> \E f \in files : f.name = n \o ".sdf" /\ f.size > 0
            /\ \A p \in Range(py.ligand_files) :
                   /\ (\E f \in files : f.name = OutputNameOf[p] /\ f.size = 0)
                          => p \in Range(py.remaining)
                   /\ p \in Range(py.remaining) <=> ~Completed(p, py.dir)

\* 1.sdf is non-empty and 2.sdf is empty: item 1 is completed, and the items 2 of both
\* input formats are pending
C17_Witness ==
    /\ py.fn = "get_completed_ligands"
    /\ py.done
    /\ [name |-> "1.sdf", size |-> 1] \in py.dir.files
    /\ [name |-> "2.sdf", size |-> 0] \in py.dir.files
    /\ py.completed = {"1"}
    /\ py.ligand_files = <<"/l/1.sdf", "/l/2.pdbqt", "/l/2.sdf">>
    /\ py.remaining = <<"/l/2.pdbqt", "/l/2.sdf">>

---------------------------------------------------------------------------
(* get_completed_ligands step by step, while the external tool writes its outputs *)

\* output files the tool writes during the call
RaceNames == {"1.sdf", "2.sdf"}

RaceDirs ==
    {[exists |-> FALSE, files |-> {}]} \cup
    {[exists |-> TRUE, files |-> {[name |-> n, size |-> IF n \in Z THEN 0 ELSE 1] : n \in S}] :
        S \in SUBSET RaceNames, Z \in SUBSET RaceNames}

\* the names present in the listing d
Listed(d) == {f.name : f \in d.files}

\* the size of the file n of d
SizeOf(d, n) == (CHOOSE f \in d.files : f.name = n).size

\* d with the file n set to size z
WithFile(d, n, z) ==
    [exists |-> TRUE, files |-> {f \in d.files : f.name # n} \cup {[name |-> n, size |-> z]}]

\* d without the file n
WithoutFile(d, n) == [d EXCEPT !.files = {f \in d.files : f.name # n}]

InitRace ==
    /\ ligand_tree = {}
    /\ mcresult \in RaceDirs
    /\ output_files = <<>>
    /\ shutdown_requested = FALSE
    /\ pc = "idle"
    /\ exit_code = -1
    /\ all_ligand_files = <<>>
    /\ ligand_files = <<>>
    /\ chunks = <<>>
    /\ chunk_num = 0
    /\ successful_chunks = 0
    /\ failed_chunks = 0
    /\ failed_chunk_numbers = <<>>
    /\ chunk_ligands = <<>>
    /\ remaining_ligands = <<>>
    /\ failed_ligands = <<>>
    /\ successful_ligands = <<>>
    /\ attempt = 0
    /\ chunk_success = FALSE
    /\ poisoned = {}
    /\ hist = HistIdle
    /\ py = [fn |-> "get_completed_ligands_live", at |-> "exists", todo |-> {},
             completed |-> {}, examined |-> {}, raised |-> "", replacing |-> {}]

raceFrame == <<ligand_tree, output_files, shutdown_requested, pc, exit_code,
               all_ligand_files, ligand_files, chunks, chunk_num, successful_chunks,
               failed_chunks, failed_chunk_numbers, chunk_ligands, remaining_ligands,
               failed_ligands, successful_ligands, attempt, chunk_success, poisoned, hist>>

\* lines 65-67: os.path.exists(result_dir)
Oracle_Exists ==
    /\ py.fn = "get_completed_ligands_live"
    /\ py.at = "exists"
    /\ py' = [py EXCEPT !.at = IF mcresult.exists THEN "listdir" ELSE "done"]
    /\ UNCHANGED <<mcresult, raceFrame>>

\* line 70: os.listdir(result_dir) returns the names present at that moment
Oracle_Listdir ==
    /\ py.fn = "get_completed_ligands_live"
    /\ py.at = "listdir"
    /\ py' = [py EXCEPT !.at = "loop", !.todo = Listed(mcresult)]
    /\ UNCHANGED <<mcresult, raceFrame>>

\* lines 70-72: one iteration of the loop, in the arbitrary order of os.listdir;
\* os.path.getsize raises FileNotFoundError for a name that is no longer there, and
\* nothing catches it
Oracle_Examine ==
    /\ py.fn = "get_completed_ligands_live"
    /\ py.at = "loop"
    /\ \E sdf_file \in py.todo :
        IF ~PyEndsWith(sdf_file, ".sdf")
        THEN py' = [py EXCEPT !.todo = @ \ {sdf_file}]
        ELSE IF sdf_file \notin Listed(mcresult)
        THEN py' = [py EXCEPT !.at = "done", !.raised = "FileNotFoundError"]
        ELSE LET size == SizeOf(mcresult, sdf_file)
             IN  py' = [py EXCEPT !.todo = @ \ {sdf_file},
                                  !.examined = @ \cup {[name |-> sdf_file, size |-> size]},
                                  !.completed = IF size > 0
                                                THEN @ \cup {PyDropLast(sdf_file, 4)} ELSE @]
    /\ UNCHANGED <<mcresult, raceFrame>>

\* line 73: return completed
Oracle_Return ==
    /\ py.fn = "get_completed_ligands_live"
    /\ py.at = "loop"
    /\ py.todo = {}
    /\ py' = [py EXCEPT !.at = "done"]
    /\ UNCHANGED <<mcresult, raceFrame>>

\* the tool creates its --savedir (line 45)
Writer_Mkdir ==
    /\ py.fn = "get_completed_ligands_live"
    /\ ~mcresult.exists
    /\ mcresult' = [exists |-> TRUE, files |-> {}]
    /\ UNCHANGED <<py, raceFrame>>

\* the tool creates an output file, still empty; this also ends a replacement
Writer_Create ==
    /\ py.fn = "get_completed_ligands_live"
    /\ mcresult.exists
    /\ \E n \in RaceNames \ Listed(mcresult) :
        /\ mcresult' = WithFile(mcresult, n, 0)
        /\ py' = [py EXCEPT !.replacing = @ \ {n}]
    /\ UNCHANGED raceFrame

\* an empty output file receives its content
Writer_Grow ==
    /\ py.fn = "get_completed_ligands_live"
    /\ \E n \in Listed(mcresult) :
        /\ SizeOf(mcresult, n) = 0
        /\ mcresult' = WithFile(mcresult, n, 1)
    /\ UNCHANGED <<py, raceFrame>>

\* the tool replaces an output in place: the file is truncated, to be written again
Writer_Truncate ==
    /\ py.fn = "get_completed_ligands_live"
    /\ \E n \in Listed(mcresult) :
        /\ SizeOf(mcresult, n) > 0
        /\ mcresult' = WithFile(mcresult, n, 0)
    /\ UNCHANGED <<py, raceFrame>>

\* the tool replaces an output by removing the old file and writing a new one: the
\* removal
Writer_ReplaceBegin ==
    /\ py.fn = "get_completed_ligands_live"
    /\ \E n \in Listed(mcresult) :
        /\ mcresult' = WithoutFile(mcresult, n)
        /\ py' = [py EXCEPT !.replacing = @ \cup {n}]
    /\ UNCHANGED raceFrame

RaceNext ==
    \/ Oracle_Exists
    \/ Oracle_Listdir
    \/ Oracle_Examine
    \/ Oracle_Return
    \/ Writer_Mkdir
    \/ Writer_Create
    \/ Writer_Grow
    \/ Writer_Truncate
    \/ Writer_ReplaceBegin

SpecRace == InitRace /\ [][RaceNext]_vars

\* C18: the completion oracle is safe under interleaving with the tool's writers.
\* Whatever the tool creates, fills or replaces during the call, the call returns
\* without raising, and every name it returns is that of a file found non-empty when
\* it was examined.
C18_OracleSafeUnderWrites ==
    (py.fn = "get_completed_ligands_live" /\ py.at = "done") =>
        /\ py.raised = ""
        /\ \A n \in py.completed :
               \E e \in py.examined : e.name = n \o ".sdf" /\ e.size > 0

\* C19: canonical names are unique across the work catalog: no two discovered work
\* items have the same canonical name.
C19_CanonicalNamesUnique ==
    \A p, q \in Range(all_ligand_files) :
        p # q => CanonicalNameOf[p] # CanonicalNameOf[q]

\* the work item p is in the completion set read from the results directory now
InCompletionSet(p) == CanonicalNameOf[p] \in get_completed_ligands(mcresult)

\* C20: the completion oracle is read again before each chunk.  The list handed to
\* run_mcdock_chunk_with_retry is the chunk without the items in the completion set at
\* that moment, and it is not empty; no item submitted in the first attempt of a chunk
\* is in the completion set the chunk started with; a chunk found entirely complete is
\* skipped and no subprocess is started for it.
C20_FreshOracleBeforeChunk ==
    /\ pc = "retry_entry" =>
        /\ chunk_ligands # <<>>
        /\ chunk_ligands = SelectSeq(chunks[chunk_num], LAMBDA p : ~InCompletionSet(p))
    /\ (pc = "subprocess" /\ hist.outcomes = <<>>) =>
        \A p \in Range(hist.submitted) : ~InCompletionSet(p)
    /\ \A k \in hist.skipped : k \notin hist.entered /\ hist.launches[k] = 0

\* the second of two chunks was found complete after the first one had run, and was
\* skipped without a subprocess
C20_Witness ==
    /\ pc = "chunk_loop"
    /\ Len(chunks) = 2
    /\ chunk_num = 3
    /\ hist.skipped = {2}
    /\ hist.launches[1] >= 1
    /\ hist.launches[2] = 0

\* the subprocesses of the current chunk that were started and have not ended
InFlight == hist.launches[chunk_num] - Len(hist.outcomes)

\* C21: strictly sequential execution.  At most one tool subprocess is in flight, and
\* only while the controller waits for it; an attempt is launched, and a chunk is
\* left, entered or skipped, only when no subprocess is in flight.
C21_StrictlySequential ==
    /\ pc \in InChunk \cup {"chunk_return"} =>
           InFlight = IF pc = "subprocess" THEN 1 ELSE 0
    /\ hist.outcome = "running" <=> pc = "subprocess"
    /\ pc \in {"chunk_loop", "summary"} =>
           \A k \in 1..Len(chunks) : k >= chunk_num => hist.launches[k] = 0
    /\ pc \in InChunk \cup {"chunk_return"} =>
           \A k \in 1..Len(chunks) : k > chunk_num => hist.launches[k] = 0

\* the second attempt of the second chunk is in flight, after the two attempts of the
\* first chunk
C21_Witness ==
    /\ pc = "subprocess"
    /\ chunk_num = 2
    /\ hist.launches = <<2, 2>>
    /\ Len(hist.outcomes) = 1

\* C22: bounded attempts.  Whatever the outcomes of the subprocesses, at most 3
\* subprocess invocations are made for a chunk.
C22_BoundedAttempts ==
    \A k \in 1..Len(hist.launches) : hist.launches[k] <= 3

\* a chunk has returned after three invocations
C22_Witness ==
    /\ pc = "chunk_return"
    /\ hist.launches[chunk_num] = 3
    /\ Len(hist.outcomes) = 3

\* steps left in the chunk in flight, at most
RankInChunk ==
    CASE pc = "chunk_loop" -> 2 * max_attempts + 5
      [] pc = "retry_entry" -> 2 * max_attempts + 4
      [] pc = "attempt_loop" -> 2 * (max_attempts - attempt) + 3
      [] pc = "subprocess" -> 2 * (max_attempts - attempt) + 2
      [] pc = "chunk_results" -> 2
      [] pc = "chunk_return" -> 1
      [] OTHER -> 0

\* steps a chunk takes, at most, plus one
RankPerChunk == 2 * max_attempts + 6

\* a bound on the controller steps left in the run
Rank ==
    CASE pc \in {"exited", "crashed"} -> 0
      [] pc = "summary" -> 1
      [] pc \in InChunk \cup {"chunk_return", "chunk_loop"} ->
             (Len(chunks) + 1 - chunk_num) * RankPerChunk + RankInChunk
      [] pc = "plan" -> (Cardinality(LigandUniverse) + 2) * RankPerChunk
      [] pc = "discover" -> (Cardinality(LigandUniverse) + 2) * RankPerChunk + 1
      [] pc = "main" -> (Cardinality(LigandUniverse) + 2) * RankPerChunk + 2
      [] OTHER -> 0

\* wherever the controller is before the end of the run, its next step can be taken;
\* while it waits for a subprocess, the timeout can end the wait (the discovery, a
\* single step without a guard, is left to the step condition of C23)
NoStall ==
    /\ pc = "main" => ENABLED Main_Validate
    /\ pc = "plan" => ENABLED Main_Plan
    /\ pc = "chunk_loop" =>
           ENABLED (Main_LoopEnd \/ Main_ShutdownBreak \/ Main_SkipChunk \/ Main_CallChunk)
    /\ pc = "retry_entry" => ENABLED Retry_Entry
    /\ pc = "attempt_loop" => ENABLED Attempt_Launch
    /\ pc = "subprocess" => ENABLED Attempt_TimesOut
    /\ pc = "chunk_results" => ENABLED Chunk_Results
    /\ pc = "chunk_return" => ENABLED Main_ChunkReturn
    /\ pc = "summary" => ENABLED Main_Summary
    /\ pc \in {"main", "discover", "plan", "chunk_loop", "retry_entry", "attempt_loop",
               "subprocess", "chunk_results", "chunk_return", "summary", "exited", "crashed"}

\* C23: termination.  The controller can always take its next step, a wait for a
\* subprocess can always be ended by the timeout, and every step of the controller
\* lowers a bound on the steps left, whatever the outcome of each subprocess; the run
\* therefore ends, and a loop over the chunks is left only to the final summary (or
\* by an exception of the launch itself).
C23_Termination ==
    /\ []NoStall
    /\ [][/\ allButFlag' # allButFlag => Rank' < Rank
          /\ pc = "discover" => pc' \in {"discover", "plan", "exited"}
          /\ (pc \in InChunk \cup {"chunk_return", "chunk_loop"}
              /\ pc' \notin InChunk \cup {"chunk_return", "chunk_loop"})
             => pc' \in {"summary", "crashed"}
          /\ pc = "summary" => pc' \in {"summary", "exited"}]_vars

\* a run whose subprocesses succeeded, failed and timed out has reached the end
C23_Witness ==
    /\ pc = "exited"
    /\ failed_chunks = 1
    /\ successful_chunks = 1
    /\ hist.launches = <<2, 1>>

---------------------------------------------------------------------------
(* The script called with --reset, then run again *)

\* reset_progress(), lines 289-299: the results directory after the call
reset_progress(d) == IF d.exists THEN [exists |-> FALSE, files |-> {}] ELSE d

\* variant of --reset that removes the results directory without looking whether it
\* exists: shutil.rmtree raises for a missing directory and the exception leaves main
Main_Reset_unguarded ==
    /\ pc = "argv_reset"
    /\ py' = [fn |-> "reset_progress", done |-> TRUE, result |-> mcresult.exists,
              had |-> get_completed_ligands(mcresult)]
    /\ mcresult' = [exists |-> FALSE, files |-> {}]
    /\ IF mcresult.exists
       THEN pc' = "exited" /\ exit_code' = 0
       ELSE pc' = "crashed" /\ exit_code' = 1
    /\ UNCHANGED <<ligand_tree, output_files, shutdown_requested,
                   mainLocals, retryLocals, poisoned, hist>>

\* lines 369-372: sys.argv[1] == "--reset": reset_progress(), exit(0)
Main_Reset ==
    /\ pc = "argv_reset"
    /\ py' = [fn |-> "reset_progress", done |-> TRUE, result |-> mcresult.exists,
              had |-> get_completed_ligands(mcresult)]
    /\ mcresult' = reset_progress(mcresult)
    /\ pc' = "exited"
    /\ exit_code' = 0
    /\ UNCHANGED <<ligand_tree, output_files, shutdown_requested,
                   mainLocals, retryLocals, poisoned, hist>>

InitReset ==
    /\ py = NoCall
    /\ ligand_tree \in {T \in SUBSET LigandUniverse : Cardinality(T) <= MaxCatalog}
    /\ mcresult \in ResultDirs(ligand_tree)
    /\ output_files = <<>>
    /\ shutdown_requested = FALSE
    /\ pc = "argv_reset"
    /\ exit_code = -1
    /\ all_ligand_files = <<>>
    /\ ligand_files = <<>>
    /\ chunks = <<>>
    /\ chunk_num = 0
    /\ successful_chunks = 0
    /\ failed_chunks = 0
    /\ failed_chunk_numbers = <<>>
    /\ chunk_ligands = <<>>
    /\ remaining_ligands = <<>>
    /\ failed_ligands = <<>>
    /\ successful_ligands = <<>>
    /\ attempt = 0
    /\ chunk_success = FALSE
    /\ poisoned = {}
    /\ hist = HistIdle

NextReset ==
    \/ Main_Reset
    \/ NewRun
    \/ Next

SpecReset == InitReset /\ [][NextReset]_vars

\* C24: reset then discover.  Whatever the results directory held, after --reset it
\* is gone, the completion oracle returns the empty set and the call has exited with
\* status 0 (also when there was no results directory, which it leaves as it was);
\* the discovery of the next run makes the whole catalog pending.
C24_ResetThenDiscover ==
    [][/\ (pc = "argv_reset" /\ pc' # pc) =>
              /\ ~mcresult'.exists
              /\ get_completed_ligands(mcresult') = {}
              /\ pc' = "exited"
              /\ exit_code' = 0
              /\ ~mcresult.exists => mcresult' = mcresult
              /\ UNCHANGED <<ligand_tree, output_files>>
       /\ (pc = "discover" /\ pc' # pc /\ hist.run = 2 /\ ligand_tree # {}) =>
              /\ pc' = "plan"
              /\ Range(all_ligand_files') = ligand_tree
              /\ ligand_files' = all_ligand_files']_vars

\* the run after a reset that removed two completions plans all three items
C24_Witness ==
    /\ pc = "plan"
    /\ hist.run = 2
    /\ py.fn = "reset_progress"
    /\ Cardinality(py.had) = 2
    /\ Len(all_ligand_files) = 3
    /\ ligand_files = all_ligand_files

\* C25: fatal configuration errors abort before any processing.  Once the validation
\* has found the receptor file or the ligand directory missing, and once the discovery
\* has found no *.sdf or *.pdbqt file, the run has exited with a non-zero status; no
\* index artifact or other file was written and no subprocess was started.
C25_FatalConfigurationAborts ==
    LET fatal == \/ pc # "main" /\ (~hist.receptor_exists \/ ~hist.ligand_dir_exists)
                 \/ pc \notin {"main", "discover"} /\ ligand_tree = {}
    IN  fatal =>
            /\ pc = "exited"
            /\ exit_code > 0
            /\ output_files = <<>>
            /\ hist.launches = <<>>
            /\ hist.entered = {}
            /\ chunks = <<>>

\* the receptor file is missing although there are ligand files: the run has exited
C25_Witness ==
    /\ pc = "exited"
    /\ ~hist.receptor_exists
    /\ Cardinality(ligand_tree) = 2
    /\ exit_code = 1

\* the names of all index artifacts
IndexArtifactNames ==
    {chunk_list_name(n, a) : n \in 1..Cardinality(LigandUniverse), a \in 0..(max_attempts - 1)}

\* C26: an executable that cannot be started is fatal.  The step in which
\* subprocess.run raises OSError ends the run with a non-zero exit status; nothing
\* happens afterwards (no later chunk is entered, no subprocess is started); no index
\* artifact is left, no failure file is written or changed by the step, no chunk is
\* counted as failed because of it; and when no subprocess was ever started in the
\* run, the run leaves no file at all and no successful chunk.
C26_MissingExecutableIsFatal ==
    [][/\ pc # "crashed"
       /\ hist'.outcome = "oserror" =>
            /\ pc' = "crashed"
            /\ exit_code' > 0
            /\ IndexArtifactNames \cap DOMAIN output_files' = {}
            /\ \A f \in FailureFileNames :
                 /\ f \in DOMAIN output_files' <=> f \in DOMAIN output_files
                 /\ f \in DOMAIN output_files => output_files'[f] = output_files[f]
            /\ failed_chunks' = failed_chunks
            /\ failed_chunk_numbers' = failed_chunk_numbers
            /\ hist'.launches = hist.launches
            /\ hist'.entered = hist.entered
            /\ mcresult' = mcresult
            /\ (\A k \in 1..Len(hist.launches) : hist.launches[k] = 0) =>
                   output_files' = <<>> /\ successful_chunks' = 0]_vars

\* the first start of the first of two chunks has failed: the run is over
C26_Witness ==
    /\ pc = "crashed"
    /\ hist.outcome = "oserror"
    /\ chunk_num = 1
    /\ Len(chunks) = 2
    /\ hist.launches = <<0, 0>>
    /\ exit_code = 1
    /\ output_files = <<>>

\* the poisoned-item scenario: a chunk [a, b] has returned after a first attempt that
\* failed with only b identified and a second attempt that succeeded
C27_Scenario ==
    /\ pc = "chunk_return"
    /\ Len(chunk_ligands) = 2
    /\ hist.outcomes = <<"nonzero", "ok">>
    /\ failed_ligands = <<chunk_ligands[2]>>

\* what the scenario leaves: the second attempt submitted exactly [a], a is in the
\* successful list and b is the content of the failure file of the chunk
C27_ItemsRecorded ==
    C27_Scenario =>
        /\ hist.submitted = <<chunk_ligands[1]>>
        /\ successful_ligands = <<chunk_ligands[1]>>
        /\ failed_file_name(chunk_num) \in DOMAIN output_files
        /\ output_files[failed_file_name(chunk_num)] = <<chunk_ligands[2]>>

\* C27: poisoned-item scenario.  For a chunk [a, b] whose first attempt fails with
\* only b identified and whose second attempt succeeds, the second attempt submitted
\* exactly [a], a is recorded as successful, b is in the failure file, and the value
\* reported for the chunk is not the value reported for a fully successful chunk
\* (TRUE, which is all the summary counts).
C27_PoisonedItemScenario ==
    /\ C27_ItemsRecorded
    /\ C27_Scenario => chunk_success # success(chunk_ligands)

\* C28: chunk assignment is deterministic.  Whatever the results directory holds at
\* the start of the run, the plan puts every item at the chunk number and position
\* the item has in the plan of the whole sorted catalog, which is the plan of a run
\* that starts with an empty results directory.
C28_DeterministicChunkAssignment ==
    (pc \in {"chunk_loop", "chunk_return", "summary"} \cup InChunk) =>
        LET whole == create_chunks(all_ligand_files, LIGANDS_PER_CHUNK).value
        IN  \A n \in 1..Len(chunks) : \A k \in 1..Len(chunks[n]) :
                /\ n <= Len(whole)
                /\ k <= Len(whole[n])
                /\ whole[n][k] = chunks[n][k]

\* C29: quarantine is permanent within a chunk.  In the step in which a failed
\* attempt has items identified, these items are added to the failed list and leave
\* the retry set, and every other submitted item stays in it, in order; the failed
\* list of a chunk never loses an item; an attempt never submits an item of the
\* failed list; and the retry set and the failed list are disjoint while attempts
\* are made.
C29_QuarantinePermanent ==
    /\ [](pc \in {"attempt_loop", "subprocess"} =>
              Range(remaining_ligands) \cap Range(failed_ligands) = {})
    /\ [][/\ (pc = "subprocess" /\ hist'.outcome = "nonzero" /\ hist'.identified # <<>>) =>
               /\ Range(hist'.identified) \subseteq Range(failed_ligands')
               /\ remaining_ligands' =
                      SelectSeq(remaining_ligands,
                                LAMBDA ligand : ligand \notin Range(hist'.identified))
          /\ pc # "retry_entry" => Range(failed_ligands) \subseteq Range(failed_ligands')
          /\ hist'.launches # hist.launches =>
               /\ hist'.submitted = remaining_ligands
               /\ Range(hist'.submitted) \cap Range(failed_ligands) = {}]_vars

\* a third attempt runs on one item after two attempts with one item identified each
C29_Witness ==
    /\ pc = "subprocess"
    /\ Len(hist.outcomes) = 2
    /\ Len(failed_ligands) = 2
    /\ Len(hist.submitted) = 1
    /\ Len(chunk_ligands) = 3

\* C30: no silent drop.  When run_mcdock_chunk_with_retry returns, every item it was
\* called with is in the successful list or in the failed list, not in both, and an
\* item that is not in the successful list is in the failure file of the chunk.
C30_NoSilentDrop ==
    pc = "chunk_return" =>
        \A ligand \in Range(hist.arg) :
            /\ (ligand \in Range(successful_ligands)) # (ligand \in Range(failed_ligands))
            /\ ligand \notin Range(successful_ligands) =>
                   /\ failed_file_name(chunk_num) \in DOMAIN output_files
                   /\ ligand \in Range(output_files[failed_file_name(chunk_num)])

\* C31: no duplicated computation inside a chunk.  While a retry attempt of a chunk
\* runs, no submitted item is in the completion set the attempt was started with: an
\* item the tool completed during the failed attempt before is not submitted again.
C31_NoDuplicatedComputation ==
    (pc = "subprocess" /\ hist.outcomes # <<>>) =>
        \A p \in Range(hist.submitted) : ~InCompletionSet(p)

C33_SuccessfulAndFailedDisjoint ==
    /\ Range(successful_ligands) \cap Range(failed_ligands) = {}
    /\ (pc = "chunk_return" /\ hist.outcomes # <<>>
        /\ failed_file_name(chunk_num) \in DOMAIN output_files) =>
           Range(output_files[failed_file_name(chunk_num)]) \cap Range(successful_ligands) = {}

\* a chunk has returned with one item successful and another one in its failure file
C33_Witness ==
    /\ pc = "chunk_return"
    /\ Len(successful_ligands) = 1
    /\ Len(failed_ligands) = 1
    /\ failed_file_name(chunk_num) \in DOMAIN output_files
    /\ output_files[failed_file_name(chunk_num)] = failed_ligands

\* C34: each item appears at most once in the failed list and in the failure file of
\* a chunk: the reported count len(failed_ligands) is the number of distinct failed
\* items, and the failure file has as many lines as distinct items.
C34_FailedItemsListedOnce ==
    /\ Len(failed_ligands) = Cardinality(Range(failed_ligands))
    /\ \A f \in FailureFileNames \cap DOMAIN output_files :
           Len(output_files[f]) = Cardinality(Range(output_files[f]))

---------------------------------------------------------------------------
(* The final summary of main over results directories that also hold outputs of
   items that are not in the catalog *)

\* an output artifact whose name belongs to no file of the universe
ForeignOutput == "9.sdf"

\* lines 473-475: total_completed and total_ligands of the summary
total_completed == Cardinality(get_completed_ligands(mcresult))
total_ligands == Len(all_ligand_files)

\* lines 488-489: the number logged as "Remaining ligands"
summary_remaining == total_ligands - total_completed

\* line 485: the condition of "All ligands completed successfully!"
summary_all_completed == failed_chunks = 0 /\ total_completed = total_ligands

\* results directories holding non-empty outputs of some catalog items and possibly
\* the foreign output
SummaryDirs(tree) ==
    {[exists |-> TRUE, files |-> {[name |-> n, size |-> 1] : n \in S}] :
        S \in SUBSET ({OutputNameOf[p] : p \in tree} \cup {ForeignOutput})}

\* lines 389-436, 472: main has validated, discovered and planned, and has left the
\* loop at the head of its first iteration because shutdown_requested was set
InitSummary ==
    /\ py = NoCall
    /\ ligand_tree \in {T \in SUBSET LigandUniverse : T # {} /\ Cardinality(T) <= MaxCatalog}
    /\ mcresult \in SummaryDirs(ligand_tree)
    /\ output_files = <<>>
    /\ shutdown_requested = TRUE
    /\ pc = "summary"
    /\ exit_code = -1
    /\ all_ligand_files = sorted(ligand_tree)
    /\ ligand_files = IF get_completed_ligands(mcresult) # {}
                      THEN filter_completed_ligands(all_ligand_files, get_completed_ligands(mcresult))
                      ELSE all_ligand_files
    /\ ligand_files # <<>>
    /\ chunks = create_chunks(ligand_files, LIGANDS_PER_CHUNK).value
    /\ chunk_num = 1
    /\ successful_chunks = 0
    /\ failed_chunks = 0
    /\ failed_chunk_numbers = <<>>
    /\ chunk_ligands = <<>>
    /\ remaining_ligands = <<>>
    /\ failed_ligands = <<>>
    /\ successful_ligands = <<>>
    /\ attempt = 0
    /\ chunk_success = FALSE
    /\ poisoned = {}
    /\ hist = [HistIdle EXCEPT !.launches = [k \in 1..Len(chunks) |-> 0]]

SpecSummary == InitSummary /\ [][Main_Summary]_vars

\* C35: the final summary is consistent with the catalog.  When the summary is
\* computed, the number reported as remaining is the number of catalog items whose
\* name is not in the completion set, it is not negative, and the message that all
\* ligands are completed is only given when every catalog item is in the completion
\* set.
C35_SummaryConsistentWithCatalog ==
    pc = "summary" =>
        LET pending == Cardinality({k \in 1..Len(all_ligand_files) :
                                       ~InCompletionSet(all_ligand_files[k])})
        IN  /\ summary_remaining = pending
            /\ summary_remaining >= 0
            /\ summary_all_completed => pending = 0

---------------------------------------------------------------------------
(* mcdockv2_b3.py: one attempt per chunk, the run stops at the first failed chunk.
   Its validation, discovery, plan, loop head and skip (lines 238-301) read as
   lines 380-444 of mcdockv2.py, and mcdockv2_b2.py has the same loop (lines
   541-591); no SIGINT handler is installed, so shutdown_requested stays FALSE. *)

\* chunk_{chunk_num}_ligand_list.txt
b3_chunk_list_name(n) == "chunk_" \o Digit(n) \o "_ligand_list.txt"

\* lines 295-306, 166-187: the chunk is filtered and handed to run_mcdock_chunk, which
\* writes the index file and starts the tool
B3_CallChunk ==
    /\ pc = "chunk_loop"
    /\ chunk_num <= Len(chunks)
    /\ LET remaining_in_chunk ==
               filter_completed_ligands(chunks[chunk_num], get_completed_ligands(mcresult))
       IN  /\ remaining_in_chunk # <<>>
           /\ chunk_ligands' = remaining_in_chunk
           /\ output_files' = WriteFile(output_files, b3_chunk_list_name(chunk_num),
                                  [k \in 1..Len(remaining_in_chunk) |-> abspath(remaining_in_chunk[k])])
           /\ hist' = [hist EXCEPT !.entered = @ \cup {chunk_num}, !.arg = remaining_in_chunk,
                                   !.submitted = remaining_in_chunk, !.outcomes = <<>>,
                                   !.outcome = "running", !.identified = <<>>,
                                   !.launches[chunk_num] = @ + 1]
    /\ pc' = "subprocess"
    /\ UNCHANGED <<py, ligand_tree, mcresult, shutdown_requested, exit_code,
                   mainLocals, remaining_ligands, failed_ligands, successful_ligands,
                   attempt, chunk_success, poisoned>>

\* lines 295-306, 166-187: subprocess.run raises OSError, which nothing catches; the
\* index file stays and the process ends with a traceback
B3_CallChunkRaises ==
    /\ pc = "chunk_loop"
    /\ chunk_num <= Len(chunks)
    /\ LET remaining_in_chunk ==
               filter_completed_ligands(chunks[chunk_num], get_completed_ligands(mcresult))
       IN  /\ remaining_in_chunk # <<>>
           /\ chunk_ligands' = remaining_in_chunk
           /\ output_files' = WriteFile(output_files, b3_chunk_list_name(chunk_num),
                                  [k \in 1..Len(remaining_in_chunk) |-> abspath(remaining_in_chunk[k])])
           /\ hist' = [hist EXCEPT !.entered = @ \cup {chunk_num}, !.arg = remaining_in_chunk,
                                   !.submitted = remaining_in_chunk, !.outcomes = <<>>,
                                   !.outcome = "oserror", !.identified = <<>>]
    /\ pc' = "crashed"
    /\ exit_code' = 1
    /\ UNCHANGED <<py, ligand_tree, mcresult, shutdown_requested,
                   mainLocals, remaining_ligands, failed_ligands, successful_ligands,
                   attempt, chunk_success, poisoned>>

\* what the three outcomes of the subprocess share: the tool may have written outputs
\* of submitted items, the outcome is noted, run_mcdock_chunk returns
B3_Outcome(outcome, returned) ==
    /\ pc = "subprocess"
    /\ \E done \in SUBSET Range(chunk_ligands) :
        mcresult' = ToolWrites(mcresult, done)
    /\ chunk_success' = returned
    /\ hist' = [hist EXCEPT !.outcome = outcome, !.outcomes = Append(@, outcome)]
    /\ pc' = "chunk_return"
    /\ UNCHANGED <<py, ligand_tree, shutdown_requested, exit_code, mainLocals,
                   chunk_ligands, remaining_ligands, failed_ligands, successful_ligands,
                   attempt, poisoned>>

\* lines 185-198: exit status 0; the index file is removed
B3_Succeeds ==
    /\ B3_Outcome("ok", TRUE)
    /\ output_files' = RemoveFile(output_files, b3_chunk_list_name(chunk_num))

\* lines 203-209: non-zero exit status; the index file stays
B3_Fails ==
    /\ B3_Outcome("nonzero", FALSE)
    /\ UNCHANGED output_files

\* lines 200-202: the subprocess exceeds timeout=36000; the index file stays
B3_TimesOut ==
    /\ B3_Outcome("timeout", FALSE)
    /\ UNCHANGED output_files

\* lines 308-319: a successful chunk is counted and the loop goes on; a failed chunk
\* is counted and the loop is left
B3_ChunkReturn ==
    /\ pc = "chunk_return"
    /\ IF chunk_success
       THEN /\ successful_chunks' = successful_chunks + 1
            /\ chunk_num' = chunk_num + 1
            /\ pc' = "chunk_loop"
            /\ UNCHANGED failed_chunks
       ELSE /\ failed_chunks' = failed_chunks + 1
            /\ pc' = "summary"
            /\ UNCHANGED <<successful_chunks, chunk_num>>
    /\ chunk_ligands' = <<>>
    /\ chunk_success' = FALSE
    /\ hist' = [hist EXCEPT !.arg = <<>>, !.submitted = <<>>, !.outcomes = <<>>,
                            !.outcome = "none"]
    /\ UNCHANGED <<py, ligand_tree, mcresult, output_files, shutdown_requested, exit_code,
                   all_ligand_files, ligand_files, chunks, failed_chunk_numbers,
                   remaining_ligands, failed_ligands, successful_ligands, attempt, poisoned>>

\* lines 210-212, 321-327: KeyboardInterrupt inside the loop; main exits with 1
B3_Interrupt ==
    /\ pc \in {"chunk_loop", "subprocess", "chunk_return"}
    /\ pc' = "exited"
    /\ exit_code' = 1
    /\ UNCHANGED <<py, ligand_tree, mcresult, output_files, shutdown_requested,
                   mainLocals, retryLocals, poisoned, hist>>

\* lines 329-348: the final summary; exit(1) when a chunk has failed
B3_Summary ==
    /\ pc = "summary"
    /\ pc' = "exited"
    /\ exit_code' = IF failed_chunks > 0 THEN 1 ELSE 0
    /\ UNCHANGED <<py, ligand_tree, mcresult, output_files, shutdown_requested,
                   mainLocals, retryLocals, poisoned, hist>>

NextB3 ==
    \/ Main_Validate
    \/ Main_Discover
    \/ Main_Plan
    \/ Main_LoopEnd
    \/ Main_SkipChunk
    \/ B3_CallChunk
    \/ B3_CallChunkRaises
    \/ B3_Succeeds
    \/ B3_Fails
    \/ B3_TimesOut
    \/ B3_ChunkReturn
    \/ B3_Interrupt
    \/ B3_Summary

SpecB3 == Init /\ [][NextB3]_vars

\* once a chunk has failed: the loop is left for good, one failure is counted, no chunk
\* after the failed one was entered or had a subprocess started, and the process
\* exits with 1
C36_StopsAtFirstFailure ==
    failed_chunks > 0 =>
        /\ pc \in {"summary", "exited"}
        /\ failed_chunks = 1
        /\ hist.entered \subseteq 1..chunk_num
        /\ \A k \in 1..Len(chunks) : k > chunk_num => hist.launches[k] = 0
        /\ hist.launches[chunk_num] = 1
        /\ pc = "exited" => exit_code = 1

\* C36: the first failed chunk stops the run.  Once a chunk has failed (non-zero exit
\* or timeout), no subprocess is started for a later chunk, the process exits with
\* 1, and every item of a later chunk is still pending: its name is not in the
\* completion set.
C36_FirstFailedChunkStopsRun ==
    /\ C36_StopsAtFirstFailure
    /\ failed_chunks > 0 =>
           \A k \in 1..Len(chunks) : k > chunk_num =>
               \A p \in Range(chunks[k]) : ~InCompletionSet(p)

---------------------------------------------------------------------------
(* mcdock.py: run_tranche_batch_docking, the tranche-aware batcher *)

\* bounds of the batcher inputs
MaxTranches == 3
MaxTrancheSize == 3
MaxBatchSize == 3
MaxTranchesPerBatch == 2

\* [x] * n
RECURSIVE Repeat(_, _)
Repeat(x, n) == IF n = 0 THEN <<>> ELSE <<x>> \o Repeat(x, n - 1)

\* lines 54-105: the call with its arguments; tranche_sizes[t] is the number of *.sdf
\* files that glob finds in tranche_paths[t]; a ligand is written as the number of
\* its tranche
InitBatcher ==
    /\ ControllerIdle
    /\ py \in {[fn |-> "run_tranche_batch_docking", tranche_sizes |-> s, batch_size |-> b,
                max_tranches_per_batch |-> m, next |-> 1,
                current_batch_ligands |-> <<>>, current_batch_tranches |-> <<>>,
                current_ligand_count |-> 0, batch_number |-> 1, batches |-> <<>>,
                done |-> FALSE] :
               s \in SeqsUpTo(0..MaxTrancheSize, MaxTranches),
               b \in 1..MaxBatchSize, m \in 1..MaxTranchesPerBatch}

\* lines 107-146: one iteration of the loop over tranche_paths
Batcher_Tranche ==
    /\ py.fn = "run_tranche_batch_docking"
    /\ ~py.done
    /\ py.next <= Len(py.tranche_sizes)
    /\ LET t == py.next
           n == py.tranche_sizes[t]
           exceeds == \/ Len(py.current_batch_tranches) >= py.max_tranches_per_batch
                      \/ py.current_ligand_count + n > py.batch_size
           processes == exceeds /\ py.current_batch_ligands # <<>>
           ligands == IF exceeds THEN <<>> ELSE py.current_batch_ligands
           tranches == IF exceeds THEN <<>> ELSE py.current_batch_tranches
           count == IF exceeds THEN 0 ELSE py.current_ligand_count
       IN  IF n = 0
           THEN py' = [py EXCEPT !.next = t + 1]
           ELSE py' = [py EXCEPT
                         !.next = t + 1,
                         !.batches = IF processes
                                     THEN Append(@, [ligand_files |-> py.current_batch_ligands,
                                                     tranches |-> py.current_batch_tranches,
                                                     batch_number |-> py.batch_number])
                                     ELSE @,
                         !.batch_number = IF processes THEN @ + 1 ELSE @,
                         !.current_batch_ligands = ligands \o Repeat(t, n),
                         !.current_batch_tranches = Append(tranches, t),
                         !.current_ligand_count = count + n]
    /\ UNCHANGED controllerVars

\* lines 148-168: the final batch and the return
Batcher_Final ==
    /\ py.fn = "run_tranche_batch_docking"
    /\ ~py.done
    /\ py.next > Len(py.tranche_sizes)
    /\ py' = [py EXCEPT
                !.batches = IF py.current_batch_ligands # <<>>
                            THEN Append(@, [ligand_files |-> py.current_batch_ligands,
                                            tranches |-> py.current_batch_tranches,
                                            batch_number |-> py.batch_number])
                            ELSE @,
                !.done = TRUE]
    /\ UNCHANGED controllerVars

NextBatcher ==
    \/ Batcher_Tranche
    \/ Batcher_Final

SpecBatcher == InitBatcher /\ [][NextBatcher]_vars

\* the part about tranches: no batch handed to _process_ligand_batch spans more than
\* max_tranches_per_batch tranches, and at the return every non-empty tranche is in
\* exactly one batch, with all its ligands
C37_TranchesBoundedAndPlacedOnce ==
    py.fn = "run_tranche_batch_docking" =>
        /\ \A k \in 1..Len(py.batches) :
               Len(py.batches[k].tranches) <= py.max_tranches_per_batch
        /\ py.done =>
               \A t \in 1..Len(py.tranche_sizes) :
                   py.tranche_sizes[t] > 0 =>
                       /\ Cardinality({k \in 1..Len(py.batches) :
                                          t \in Range(py.batches[k].tranches)}) = 1
                       /\ \A k \in 1..Len(py.batches) :
                              t \in Range(py.batches[k].tranches) =>
                                  Len(SelectSeq(py.batches[k].ligand_files, LAMBDA l : l = t))
                                      = py.tranche_sizes[t]

\* C37: batch limits of the tranche-aware batcher.  Every batch handed to
\* _process_ligand_batch has at most batch_size ligands and at most
\* max_tranches_per_batch tranches, and every non-empty tranche is placed in exactly
\* one batch.
C37_BatchLimits ==
    /\ C37_TranchesBoundedAndPlacedOnce
    /\ py.fn = "run_tranche_batch_docking" =>
           \A k \in 1..Len(py.batches) : Len(py.batches[k].ligand_files) <= py.batch_size

---------------------------------------------------------------------------
(* getdatab2.py: download_all_from_uri_file, the download rounds *)

\* bounds of the download inputs
MaxUrls == 3
MaxRetries == 3

\* lines 95-141: the call with the URLs read from the file (written 1..urls) and a
\* positive max_retries; every URL is a download argument
InitDownload ==
    /\ ControllerIdle
    /\ py \in {[fn |-> "download_all_from_uri_file", urls |-> n, max_retries |-> r,
                attempt |-> 1, failed_downloads |-> {}, total_downloaded |-> 0,
                total_failed |-> 0, attempts_of |-> [u \in 1..n |-> 0], succeeded |-> {},
                done |-> FALSE] :
               n \in 1..MaxUrls, r \in 1..MaxRetries}

\* lines 144-197: one iteration of `for attempt in range(1, max_retries + 1)`: the
\* current arguments are all downloads in the first attempt and the failed ones of
\* the attempt before afterwards; each download succeeds or fails; failed_downloads
\* is kept as a set, its order is the order of as_completed
Download_Attempt ==
    /\ py.fn = "download_all_from_uri_file"
    /\ ~py.done
    /\ py.attempt <= py.max_retries
    /\ ~(py.attempt > 1 /\ py.failed_downloads = {})
    /\ LET current_args == IF py.attempt = 1 THEN 1..py.urls ELSE py.failed_downloads
       IN  \E downloaded \in SUBSET current_args :
               py' = [py EXCEPT
                        !.attempt = @ + 1,
                        !.failed_downloads = current_args \ downloaded,
                        !.total_downloaded = @ + Cardinality(downloaded),
                        !.total_failed = Cardinality(current_args \ downloaded),
                        !.attempts_of = [u \in 1..py.urls |->
                                            IF u \in current_args THEN @[u] + 1 ELSE @[u]],
                        !.succeeded = @ \cup downloaded]
    /\ UNCHANGED controllerVars

\* lines 144-151, 199-204: the range is exhausted, or an attempt after the first finds
\* no failed download and breaks; the totals are returned
Download_Return ==
    /\ py.fn = "download_all_from_uri_file"
    /\ ~py.done
    /\ \/ py.attempt > py.max_retries
       \/ py.attempt > 1 /\ py.failed_downloads = {}
    /\ py' = [py EXCEPT !.done = TRUE]
    /\ UNCHANGED controllerVars

NextDownload ==
    \/ Download_Attempt
    \/ Download_Return

SpecDownload == InitDownload /\ [][NextDownload]_vars

\* the parts about successes and totals: a URL that has succeeded is not attempted
\* again, and at the return total_downloaded + total_failed is the number of URLs
C38_NoReattemptAndTotals ==
    /\ []((py.fn = "download_all_from_uri_file" /\ py.done) =>
              /\ py.total_downloaded + py.total_failed = py.urls
              /\ py.total_downloaded = Cardinality(py.succeeded))
    /\ [][py.fn = "download_all_from_uri_file" =>
              \A u \in py.succeeded : py'.attempts_of[u] = py.attempts_of[u]]_vars

\* C38: download retries.  At the return, a URL that failed every time was attempted
\* once and then retried max_retries more times; a URL that has succeeded is never
\* attempted again; and total_downloaded + total_failed is the number of URLs.
C38_RetriesUpToMaxRetries ==
    /\ C38_NoReattemptAndTotals
    /\ []((py.fn = "download_all_from_uri_file" /\ py.done) =>
              \A u \in py.failed_downloads : py.attempts_of[u] = 1 + py.max_retries)

====
